---------------------------- MODULE Spec2Model ----------------------------
(***************************************************************************)
(* Styled Components Theme IntelliSense: the theme loader (loadTheme.ts),  *)
(* the extension's watchers and generate command (extension.ts), the       *)
(* inlay hints scan (providers/inlays.ts) and the flattening transform     *)
(* (scripts/gen-theme-json.ts).                                            *)
(*                                                                         *)
(* A theme value is a record [t, s, n]: t is the JavaScript kind, s the    *)
(* characters of a string, n the numeric payload (a number, a heap         *)
(* reference for an object, the declared parameter count of a function);   *)
(* a number too large for n is n followed by the zeros in s.               *)
(* A dotted path                                                           *)
(* is the sequence of its segments: joining with "." and comparing the     *)
(* strings is the same as comparing the sequences, the segments being      *)
(* non-empty and free of ".".  A table (a JavaScript object used as a map) *)
(* is the sequence of its entries in insertion order, keys unique.         *)
(***************************************************************************)
EXTENDS Integers, Sequences, FiniteSets, TLC

VARIABLES
    \* ---- loadTheme.ts / extension.ts ----
    variant,          \* which extension.ts is running: "timer" or "watcher"
    jsonFile,         \* <extensionPath>/theme/theme-values.json on disk
    projJson,         \* <projectRoot>/.vscode/theme-values.json on disk
    genVer,           \* theme file version the last completed generation read;
                      \* -1 if none, or if the loader's file was written or
                      \* deleted by something else since
    cachedTheme,      \* loadTheme.ts: let cachedTheme
    jsonWatcher,      \* the watcher initializeThemeLoader created, if any
    jsonEvents,       \* its events not yet delivered
    themeVer,         \* the contents of the user's theme file
    themeEvents,      \* theme file watcher events not yet delivered
    gen,              \* the terminal running the generate command
    writer,           \* the process writing theme-values.json
    timers,           \* pending setTimeout(..., 2000) callbacks
    staleFail,        \* the last reload failed and dropped a loaded table
    lastQuery,        \* the last provider call and what it returned
    \* ---- providers/inlays.ts ----
    idoc,             \* the document, as its tokens
    irange,           \* the requested range, in token offsets [from, to)
    itable,           \* what getThemeData() returns during the call
    lastIndex,        \* THEME_PATH_DETECTION_REGEX.lastIndex
    ihints,           \* const hints
    icancel,          \* token.isCancellationRequested
    ipc,              \* "idle", "scan" (inside the while loop), "done"
    icalls,           \* calls of provideInlayHints so far
    iresult,          \* what the last call returned
    ioutcome,         \* how it returned
    \* ---- scripts/gen-theme-json.ts ----
    heap,             \* the theme's objects: heap[1] is the theme
    fpc,              \* "input", "flat", "reflat", "reordered", "failed"
    fout,             \* flattenObject(theme)
    fout2,            \* flattenObject(flattenObject(theme))
    foutRev,          \* flattenObject of the theme with every object's keys
                      \* enumerated in the reverse order
    \* ---- providers/completions.ts, providers/hover.ts ----
    eline,            \* the line of the document under the cursor, as tokens
    epos,             \* the position in the line, in token offsets
    etable,           \* what getThemeData() returns during the call
    estyled,          \* document.fileName.endsWith('.styled.ts')
    ecancel,          \* token.isCancellationRequested
    epc,              \* "idle", "scan" (inside the for-in loop), "done"
    cidx,             \* keys of the table the loop has visited
    cuniq,            \* const uniqueSuggestions
    citems,           \* const completions
    eres,             \* the last provider call and what it returned
    ithemeData,       \* ThemeInlayHintsProvider: private themeData
    \* ---- extension.ts: the theme file watcher ----
    wstate,           \* "inactive", "active", "deactivating" (deactivate() has
                      \* returned), "deactivated" (subscriptions disposed)
    workspaceFolders, \* vscode.workspace.workspaceFolders.length
    themeFilePathSetting, \* styled-theme-intellisense.themeFilePath
    configEvents,     \* a themeFilePath configuration change is not yet delivered
    themeFileWatcher, \* let themeFileWatcher: 0 is null, i is watchers[i]
    watchers          \* the watchers createFileSystemWatcher has returned

loaderVars == <<variant, jsonFile, projJson, genVer, cachedTheme, jsonWatcher, jsonEvents,
                themeVer, themeEvents, gen, writer, timers, staleFail, lastQuery>>

inlayVars == <<idoc, irange, itable, lastIndex, ihints, icancel, ipc, icalls,
               iresult, ioutcome>>

flatVars == <<heap, fpc, fout, fout2, foutRev>>

editVars == <<eline, epos, etable, estyled, ecancel, epc, cidx, cuniq, citems, eres,
              ithemeData>>

watcherVars == <<wstate, workspaceFolders, themeFilePathSetting, configEvents,
                 themeFileWatcher, watchers>>

vars == <<loaderVars, inlayVars, flatVars, editVars, watcherVars>>

notLoader == <<inlayVars, flatVars, editVars, watcherVars>>
notInlay == <<loaderVars, flatVars, editVars, watcherVars>>
notFlat == <<loaderVars, inlayVars, editVars, watcherVars>>
notEdit == <<loaderVars, inlayVars, flatVars, watcherVars>>
notWatcher == <<loaderVars, inlayVars, flatVars, editVars>>

-----------------------------------------------------------------------------
(* Bounds *)

MaxVer == 2        \* the theme file and theme-values.json take versions 0..MaxVer
MaxEvents == 2     \* undelivered events of the theme-values.json watcher
MaxPhrases == 2    \* accessor expressions in a document
MaxCalls == 2      \* calls of provideInlayHints on one document
NumNodes == 2      \* objects of a theme
MaxStack == 4      \* nested calls the JavaScript stack holds
MaxWatchers == 3   \* theme file watchers created in one session

Versions == 0..MaxVer

-----------------------------------------------------------------------------
(* Values and tables *)

Num(i) == [t |-> "number", s |-> <<>>, n |-> i]
\* The integer m * 10^k, below 10^21: zeros holds the k zeros it ends with
NumE(m, zeros) == [t |-> "number", s |-> zeros, n |-> m]
Str(cs) == [t |-> "string", s |-> cs, n |-> 0]
Bool(b) == [t |-> "boolean", s |-> <<>>, n |-> IF b THEN 1 ELSE 0]
JsNull == [t |-> "null", s |-> <<>>, n |-> 0]
Arr(i) == [t |-> "array", s |-> <<>>, n |-> i]
Obj(i) == [t |-> "object", s |-> <<>>, n |-> i]
Fn(i) == [t |-> "function", s |-> <<>>, n |-> i]

Entry(key, val) == [k |-> key, v |-> val]

Has(tbl, key) == \E i \in 1..Len(tbl) : tbl[i].k = key

Get(tbl, key) == tbl[CHOOSE i \in 1..Len(tbl) : tbl[i].k = key].v

Keys(tbl) == {tbl[i].k : i \in 1..Len(tbl)}

\* theme-values.json as version v of the generator's output writes it: the
\* entries differ between versions in their values and in one key.
TableOf(v) == << Entry(<<"a", "b">>, Num(v)),
                 Entry(<<"v", ToString(v)>>, Str(<<"x">>)) >>

\* A reference to a table, or null.
Null == [loaded |-> FALSE, tbl |-> <<>>]
Ref(tbl) == [loaded |-> TRUE, tbl |-> tbl]

\* The file on disk: absent (with or without its directory), or its bytes:
\* the entries written so far and whether the closing brace is written.
NoDir == [st |-> "nodir", entries |-> <<>>, closed |-> FALSE]
Missing == [st |-> "missing", entries |-> <<>>, closed |-> FALSE]
File(es, c) == [st |-> "file", entries |-> es, closed |-> c]

-----------------------------------------------------------------------------
(* loadTheme.ts *)

\* A parser that accepts whatever entries are on disk.
ParseLenient(file) == file.st = "file"

\* JSON.parse(fs.readFileSync(filePath)): a proper prefix of an object's text
\* is no JSON text, so parsing throws until the closing brace is on disk.
ParseOk(file) == file.st = "file" /\ file.closed

\* A getThemeData that reads the file at every call.
GetThemeDataReread(cache, file) ==
    IF ParseOk(file)
    THEN [ret |-> Ref(file.entries), cache |-> Ref(file.entries)]
    ELSE [ret |-> Null, cache |-> Null]

\* getThemeData: [ret |-> what it returns, cache |-> cachedTheme afterwards]
GetThemeData(cache, file) ==
    IF cache.loaded
    THEN [ret |-> cache, cache |-> cache]
    ELSE IF file.st = "file"
         THEN IF ParseOk(file)
              THEN [ret |-> Ref(file.entries), cache |-> Ref(file.entries)]
              ELSE [ret |-> Null, cache |-> Null]      \* catch: cachedTheme = null
         ELSE [ret |-> Null, cache |-> Null]           \* file not found

\* A reload that keeps the table it had when the file cannot be loaded.
ReloadKeepLastGood(cache, file) ==
    LET g == GetThemeData(Null, file)
    IN  IF g.ret.loaded THEN g ELSE [ret |-> cache, cache |-> cache]

\* reloadThemeData: cachedTheme = null; themeJsonPath = null; getThemeData()
\* (the path is recomputed from the same context, so it is the same path).
ReloadThemeData(cache, file) == GetThemeData(Null, file)


-----------------------------------------------------------------------------
(* The providers' use of the loader.  `m` says whether the text at the     *)
(* position (or in the range) holds something the provider resolves in a   *)
(* loaded table.  Each returns [ret, seen, cache]: what the provider       *)
(* returns, the table reference it worked on, cachedTheme afterwards.      *)

\* completions.ts: no match of THEME_ACCESS_PATTERN returns null before the
\* loader is asked; no table returns null.
ProvideCompletionItems(cache, file, m) ==
    IF ~m
    THEN [ret |-> "null", seen |-> Null, cache |-> cache]
    ELSE LET g == GetThemeData(cache, file) IN
         IF ~g.ret.loaded
         THEN [ret |-> "null", seen |-> g.ret, cache |-> g.cache]
         ELSE [ret |-> "items", seen |-> g.ret, cache |-> g.cache]

\* hover.ts: no table returns null; no word or no resolved path returns null.
ProvideHover(cache, file, m) ==
    LET g == GetThemeData(cache, file) IN
    IF ~g.ret.loaded
    THEN [ret |-> "null", seen |-> g.ret, cache |-> g.cache]
    ELSE [ret |-> IF m THEN "hover" ELSE "null", seen |-> g.ret, cache |-> g.cache]

\* A provider without the early return: themeData.hasOwnProperty throws a
\* TypeError on null at the first match.
ProvideInlayHintsUnguarded(cache, file, m) ==
    LET g == GetThemeData(cache, file) IN
    [ret |-> IF ~m THEN "empty" ELSE IF g.ret.loaded THEN "hints" ELSE "throw",
     seen |-> g.ret, cache |-> g.cache]

\* inlays.ts: no table returns []; a table with no match returns the empty hints.
ProvideInlayHints(cache, file, m) ==
    LET g == GetThemeData(cache, file) IN
    IF ~g.ret.loaded
    THEN [ret |-> "empty", seen |-> g.ret, cache |-> g.cache]
    ELSE [ret |-> IF m THEN "hints" ELSE "empty", seen |-> g.ret, cache |-> g.cache]

-----------------------------------------------------------------------------
(* The file system watcher on theme-values.json *)

\* One more event for the watcher, if there is one; an event equal to the last
\* undelivered one is coalesced with it.
Emit(q, e) ==
    IF ~jsonWatcher THEN q
    ELSE IF q # <<>> /\ q[Len(q)] = e THEN q
    ELSE Append(q, e)

CanEmit(e) ==
    \/ ~jsonWatcher
    \/ jsonEvents # <<>> /\ jsonEvents[Len(jsonEvents)] = e
    \/ Len(jsonEvents) < MaxEvents

Idle == [on |-> FALSE, ver |-> 0]
Writing(v) == [on |-> TRUE, ver |-> v]

\* fs.writeFileSync opens the file truncating it (creating it, and the
\* generator its directory, when absent).
OpenForWrite(v) ==
    /\ ~writer.on
    /\ LET e == IF jsonFile.st = "file" THEN "change" ELSE "create" IN
       /\ CanEmit(e)
       /\ jsonEvents' = Emit(jsonEvents, e)
    /\ jsonFile' = File(<<>>, FALSE)
    /\ writer' = Writing(v)

-----------------------------------------------------------------------------
(* Initial state: activate() has run.  initializeThemeLoader has made the  *)
(* initial load and created the watcher if the directory of                *)
(* theme-values.json exists.                                               *)

NoQuery == [kind |-> "none", ret |-> "null", seen |-> Null]

\* The components a specification leaves alone stay as they are here.
LoaderParked ==
    /\ variant = "timer"
    /\ jsonFile = Missing
    /\ projJson = -1
    /\ genVer = -1
    /\ cachedTheme = Null
    /\ jsonWatcher = FALSE
    /\ jsonEvents = <<>>
    /\ themeVer = 0
    /\ themeEvents = 0
    /\ gen = "idle"
    /\ writer = Idle
    /\ timers = 0
    /\ staleFail = FALSE
    /\ lastQuery = NoQuery

InlayParked ==
    /\ idoc = <<>>
    /\ irange = <<0, 0>>
    /\ itable = Null
    /\ lastIndex = 0
    /\ ihints = <<>>
    /\ icancel = FALSE
    /\ ipc = "idle"
    /\ icalls = 0
    /\ iresult = <<>>
    /\ ioutcome = "none"

NoTable == [ok |-> TRUE, err |-> "", tbl |-> <<>>]

FlatParked ==
    /\ heap = <<>>
    /\ fpc = "input"
    /\ fout = NoTable
    /\ fout2 = NoTable
    /\ foutRev = NoTable

\* No call of a completion or hover provider yet.
NoResult == [kind |-> "none", ret |-> "null", items |-> <<>>,
             path |-> <<>>, value |-> [t |-> "undefined", s |-> <<>>, n |-> 0],
             inferred |-> FALSE, hints |-> <<>>]

EditParked ==
    /\ eline = <<>>
    /\ epos = 0
    /\ etable = Null
    /\ estyled = FALSE
    /\ ecancel = FALSE
    /\ epc = "idle"
    /\ cidx = 0
    /\ cuniq = {}
    /\ citems = <<>>
    /\ eres = NoResult
    /\ ithemeData = Null

\* The extension is not activated: let themeFileWatcher = null.
WatcherParked ==
    /\ wstate = "inactive"
    /\ workspaceFolders = 0
    /\ themeFilePathSetting = ""
    /\ configEvents = FALSE
    /\ themeFileWatcher = 0
    /\ watchers = <<>>

Init ==
    /\ WatcherParked
    /\ InlayParked
    /\ FlatParked
    /\ EditParked
    /\ variant \in {"timer", "watcher"}
    /\ jsonFile \in {NoDir, Missing, File(TableOf(0), TRUE)}
    /\ projJson = -1
    /\ genVer = -1
    /\ cachedTheme = GetThemeData(Null, jsonFile).cache
    /\ jsonWatcher = (jsonFile.st # "nodir")
    /\ jsonEvents = <<>>
    /\ themeVer = 0
    /\ themeEvents = 0
    /\ gen = "idle"
    /\ writer = Idle
    /\ timers = 0
    /\ staleFail = FALSE
    /\ lastQuery = NoQuery

-----------------------------------------------------------------------------
(* extension.ts *)

\* The body of the generateTheme command (the workspace is open and
\* themeFilePath is set; otherwise the command returns having done nothing).
\* "timer": npm run generate-theme in a terminal, and a reload 2 s later.
\* "watcher": the CLI in a terminal, writing <projectRoot>/.vscode/theme-values.json.
GenerateThemeBody ==
    /\ gen = "idle"                     \* one generation at a time
    /\ gen' = "running"
    /\ IF variant = "timer"
       THEN timers = 0 /\ timers' = 1
       ELSE timers' = timers

\* The user runs "Styled Theme: Generate Theme IntelliSense Data".
GenerateThemeCommand ==
    /\ GenerateThemeBody
    /\ UNCHANGED <<notLoader, variant, genVer, jsonFile, projJson, cachedTheme, jsonWatcher, jsonEvents,
                   themeVer, themeEvents, writer, staleFail, lastQuery>>

\* The user saves the theme file; the theme file watcher sees it.
UserEditTheme ==
    /\ themeVer < MaxVer
    /\ themeVer' = themeVer + 1
    /\ themeEvents' = 1
    /\ UNCHANGED <<notLoader, variant, genVer, jsonFile, projJson, cachedTheme, jsonWatcher, jsonEvents,
                   gen, writer, timers, staleFail, lastQuery>>

\* handleThemeFileChange: executes the generateTheme command.
HandleThemeFileChange ==
    /\ themeEvents > 0
    /\ themeEvents' = 0
    /\ GenerateThemeBody
    /\ UNCHANGED <<notLoader, variant, genVer, jsonFile, projJson, cachedTheme, jsonWatcher, jsonEvents,
                   themeVer, writer, staleFail, lastQuery>>

\* setTimeout callback: reloadThemeData(context); inlayHintsProvider.refresh().
TimerFire ==
    /\ timers > 0
    /\ timers' = timers - 1
    /\ LET r == ReloadThemeData(cachedTheme, jsonFile)
           f == GetThemeData(r.cache, jsonFile)
       IN  /\ cachedTheme' = f.cache
           /\ staleFail' = (cachedTheme.loaded /\ ~ParseOk(jsonFile))
    /\ UNCHANGED <<notLoader, variant, genVer, jsonFile, projJson, jsonWatcher, jsonEvents,
                   themeVer, themeEvents, gen, writer, lastQuery>>

-----------------------------------------------------------------------------
(* The processes the terminal runs *)

\* The process ends without writing: gen-theme-json.ts caught an error
\* (flattening threw) and exits 1, or the CLI is not installed.
GenFail ==
    /\ gen = "running"
    /\ gen' = "idle"
    /\ UNCHANGED <<notLoader, variant, genVer, jsonFile, projJson, cachedTheme, jsonWatcher, jsonEvents,
                   themeVer, themeEvents, writer, timers, staleFail, lastQuery>>

\* gen-theme-json.ts: flattens createMockTheme() (not the user's theme file)
\* and writes it to <extension>/theme/theme-values.json.
GenScriptWrite ==
    /\ gen = "running"
    /\ variant = "timer"
    /\ gen' = "idle"
    /\ OpenForWrite(0)
    /\ genVer' = themeVer
    /\ UNCHANGED <<notLoader, variant, projJson, cachedTheme, jsonWatcher,
                   themeVer, themeEvents, timers, staleFail, lastQuery>>

\* node cli.js --config <theme file> --output <projectRoot>/.vscode/theme-values.json
GenCliWrite ==
    /\ gen = "running"
    /\ variant = "watcher"
    /\ gen' = "idle"
    /\ projJson' = themeVer
    /\ genVer' = themeVer
    /\ UNCHANGED <<notLoader, variant, jsonFile, cachedTheme, jsonWatcher, jsonEvents,
                   themeVer, themeEvents, writer, timers, staleFail, lastQuery>>

\* theme-values.json rewritten for any other reason, with some version's table.
ExternalWrite ==
    /\ \E v \in 1..MaxVer : OpenForWrite(v)
    /\ genVer' = -1
    /\ UNCHANGED <<notLoader, variant, projJson, cachedTheme, jsonWatcher,
                   themeVer, themeEvents, gen, timers, staleFail, lastQuery>>

\* The writing process puts the next entry on disk.
WriteStep ==
    /\ writer.on
    /\ Len(jsonFile.entries) < Len(TableOf(writer.ver))
    /\ CanEmit("change")
    /\ jsonFile' = File(Append(jsonFile.entries,
                               TableOf(writer.ver)[Len(jsonFile.entries) + 1]), FALSE)
    /\ jsonEvents' = Emit(jsonEvents, "change")
    /\ UNCHANGED <<notLoader, variant, genVer, projJson, cachedTheme, jsonWatcher,
                   themeVer, themeEvents, gen, writer, timers, staleFail, lastQuery>>

\* The writing process writes the closing brace and ends.
WriteClose ==
    /\ writer.on
    /\ Len(jsonFile.entries) = Len(TableOf(writer.ver))
    /\ CanEmit("change")
    /\ jsonFile' = File(jsonFile.entries, TRUE)
    /\ jsonEvents' = Emit(jsonEvents, "change")
    /\ writer' = Idle
    /\ UNCHANGED <<notLoader, variant, genVer, projJson, cachedTheme, jsonWatcher,
                   themeVer, themeEvents, gen, timers, staleFail, lastQuery>>

\* theme-values.json is deleted.
ExternalDelete ==
    /\ ~writer.on
    /\ jsonFile.st = "file"
    /\ CanEmit("delete")
    /\ jsonFile' = Missing
    /\ jsonEvents' = Emit(jsonEvents, "delete")
    /\ genVer' = -1
    /\ UNCHANGED <<notLoader, variant, projJson, cachedTheme, jsonWatcher,
                   themeVer, themeEvents, gen, writer, timers, staleFail, lastQuery>>

-----------------------------------------------------------------------------
(* initializeThemeLoader's watcher handlers *)

\* watcher.onDidChange(reload), watcher.onDidCreate(reload)
OnDidChangeOrCreate ==
    /\ jsonEvents # <<>>
    /\ Head(jsonEvents) \in {"change", "create"}
    /\ jsonEvents' = Tail(jsonEvents)
    /\ cachedTheme' = ReloadThemeData(cachedTheme, jsonFile).cache
    /\ staleFail' = (cachedTheme.loaded /\ ~ParseOk(jsonFile))
    /\ UNCHANGED <<notLoader, variant, genVer, jsonFile, projJson, jsonWatcher,
                   themeVer, themeEvents, gen, writer, timers, lastQuery>>

\* A delete handler that takes the event and keeps the cached table.
OnDidDeleteKeep ==
    /\ jsonEvents # <<>>
    /\ Head(jsonEvents) = "delete"
    /\ jsonEvents' = Tail(jsonEvents)
    /\ staleFail' = FALSE
    /\ UNCHANGED <<notLoader, variant, genVer, jsonFile, projJson, cachedTheme, jsonWatcher,
                   themeVer, themeEvents, gen, writer, timers, lastQuery>>

\* watcher.onDidDelete: cachedTheme = null
OnDidDelete ==
    /\ jsonEvents # <<>>
    /\ Head(jsonEvents) = "delete"
    /\ jsonEvents' = Tail(jsonEvents)
    /\ cachedTheme' = Null
    /\ staleFail' = FALSE
    /\ UNCHANGED <<notLoader, variant, genVer, jsonFile, projJson, jsonWatcher,
                   themeVer, themeEvents, gen, writer, timers, lastQuery>>

-----------------------------------------------------------------------------
(* Queries *)

Answer(kind, r) ==
    /\ lastQuery' = [kind |-> kind, ret |-> r.ret, seen |-> r.seen]
    /\ cachedTheme' = r.cache
    /\ staleFail' = (staleFail /\ ~r.cache.loaded)
    /\ UNCHANGED <<notLoader, variant, genVer, jsonFile, projJson, jsonWatcher, jsonEvents,
                   themeVer, themeEvents, gen, writer, timers>>

CompletionQuery ==
    \E m \in BOOLEAN : Answer("completion", ProvideCompletionItems(cachedTheme, jsonFile, m))

HoverQuery ==
    \E m \in BOOLEAN : Answer("hover", ProvideHover(cachedTheme, jsonFile, m))

InlayQuery ==
    \E m \in BOOLEAN : Answer("inlay", ProvideInlayHints(cachedTheme, jsonFile, m))

Next ==
    \/ GenerateThemeCommand
    \/ UserEditTheme
    \/ HandleThemeFileChange
    \/ TimerFire
    \/ GenFail
    \/ GenScriptWrite
    \/ GenCliWrite
    \/ ExternalWrite
    \/ WriteStep
    \/ WriteClose
    \/ ExternalDelete
    \/ OnDidChangeOrCreate
    \/ OnDidDelete
    \/ CompletionQuery
    \/ HoverQuery
    \/ InlayQuery

Spec == Init /\ [][Next]_vars

-----------------------------------------------------------------------------
(* Properties of the loader                                                *)

\* Nothing is in progress: no write, no generation, no undelivered event, no
\* pending timer.
Quiescent ==
    /\ ~writer.on
    /\ gen = "idle"
    /\ jsonEvents = <<>>
    /\ themeEvents = 0
    /\ timers = 0

\* The table a query made now works on.
TableInUse == GetThemeData(cachedTheme, jsonFile).ret

\* C1: a query for which getThemeData returned null (or that did not need the
\* table) returned null from provideCompletionItems and provideHover and the
\* empty list from provideInlayHints, whatever the text; it did not throw.
C1_NoTableNoResult ==
    (lastQuery.kind # "none" /\ ~lastQuery.seen.loaded) =>
        lastQuery.ret = (IF lastQuery.kind = "inlay" THEN "empty" ELSE "null")

\* An inlay hints query made while theme-values.json was half written and
\* nothing was cached.
C1_Witness ==
    /\ lastQuery.kind = "inlay"
    /\ ~lastQuery.seen.loaded
    /\ ~cachedTheme.loaded
    /\ jsonFile.st = "file"
    /\ ~jsonFile.closed

\* C2 as stated: a reload that fails while a table is loaded leaves that
\* table in place.
C2_LastKnownGoodRetained ==
    [][(staleFail' /\ cachedTheme.loaded) => cachedTheme' = cachedTheme]_vars

\* C2: a generation that ends without writing theme-values.json leaves the
\* file and the loaded table as they were; a reload that fails while a table
\* is loaded leaves cachedTheme null, and as long as no later load succeeds a
\* query works on whatever theme-values.json then holds: no table if it is
\* still missing or unparseable, its contents otherwise.
C2_FailedReloadDiscards ==
    [][/\ (gen = "running" /\ gen' = "idle" /\ jsonFile' = jsonFile) =>
             cachedTheme' = cachedTheme
       /\ (staleFail' /\ cachedTheme.loaded) => cachedTheme' = Null
       /\ staleFail' =>
             TableInUse' = (IF ParseOk(jsonFile') THEN Ref(jsonFile'.entries) ELSE Null)]_vars

\* After a failed reload that dropped a table, a hover query found no table.
C2_Witness ==
    /\ staleFail
    /\ ~cachedTheme.loaded
    /\ lastQuery.kind = "hover"
    /\ ~lastQuery.seen.loaded

\* C3: once the events of a change to theme-values.json are delivered, a
\* getThemeData call returns the table parsed from the file's contents.
C3_ReloadedAfterChange ==
    (~writer.on /\ jsonEvents = <<>> /\ ParseOk(jsonFile)) =>
        TableInUse = Ref(jsonFile.entries)

\* C4: once a generation started after the last change of the theme file has
\* completed and nothing is in progress, the table in use is the one
\* generated from the theme file as it is.
C4_TableFollowsThemeFile ==
    (Quiescent /\ themeVer > 0 /\ genVer = themeVer) =>
        TableInUse = Ref(TableOf(themeVer))

\* C5: the table a query works on, and the table cached at any moment, is
\* one version's table in full.
C5_WholeTables ==
    /\ lastQuery.seen.loaded => \E v \in Versions : lastQuery.seen.tbl = TableOf(v)
    /\ cachedTheme.loaded => \E v \in Versions : cachedTheme.tbl = TableOf(v)

\* A query answered from the complete old table while another version is
\* half written on disk.
C5_Witness ==
    /\ writer.on
    /\ writer.ver # 0
    /\ Len(jsonFile.entries) = 1
    /\ cachedTheme = Ref(TableOf(0))
    /\ lastQuery.kind # "none"
    /\ lastQuery.seen = cachedTheme

\* C28: a completion, hover or inlay hints call made while a table is
\* loaded leaves that table as it is, whatever the call returns and whatever
\* is on disk, and no call writes theme-values.json.
C28_QueriesLeaveTable ==
    [][(CompletionQuery \/ HoverQuery \/ InlayQuery) =>
          /\ jsonFile' = jsonFile
          /\ cachedTheme.loaded => cachedTheme' = cachedTheme]_vars

\* A completion answered from the loaded table while theme-values.json
\* holds another table, whole.
C28_Witness ==
    /\ lastQuery.kind = "completion"
    /\ lastQuery.ret = "items"
    /\ lastQuery.seen = cachedTheme
    /\ cachedTheme.loaded
    /\ ParseOk(jsonFile)
    /\ jsonFile.entries # cachedTheme.tbl

\* The watcher has delivered every delete event and theme-values.json does
\* not exist.
DeleteDelivered ==
    /\ jsonWatcher
    /\ jsonFile.st # "file"
    /\ \A i \in 1..Len(jsonEvents) : jsonEvents[i] # "delete"

\* A provider call that reaches getThemeData (a completion call does when
\* the text before the cursor is a theme access).
LoaderQuery ==
    \/ Answer("completion", ProvideCompletionItems(cachedTheme, jsonFile, TRUE))
    \/ HoverQuery
    \/ InlayQuery

\* C29: the delete handler of the theme-values.json watcher clears the cached
\* table; once the delete event is delivered and as long as the file does not
\* exist no table is cached and every completion, hover and inlay hints call
\* returns null or the empty list; the first call of getThemeData made with
\* nothing cached and the recreated file whole on disk loads and returns the
\* file's contents.
C29_DeleteClearsCache ==
    /\ [](DeleteDelivered => ~cachedTheme.loaded)
    /\ [][/\ OnDidDelete => cachedTheme' = Null
          /\ ((CompletionQuery \/ HoverQuery \/ InlayQuery) /\ DeleteDelivered) =>
                /\ lastQuery'.ret \in {"null", "empty"}
                /\ ~lastQuery'.seen.loaded
                /\ cachedTheme' = Null
          /\ (LoaderQuery /\ ~cachedTheme.loaded /\ ParseOk(jsonFile)) =>
                /\ lastQuery'.seen = Ref(jsonFile.entries)
                /\ cachedTheme' = Ref(jsonFile.entries)]_vars

\* The last provider call worked on a loaded table; since then the file was
\* deleted and the delete handler has cleared the cache.
C29_Witness ==
    /\ DeleteDelivered
    /\ jsonEvents = <<>>
    /\ lastQuery.seen.loaded
    /\ ~cachedTheme.loaded
    /\ ~staleFail

-----------------------------------------------------------------------------
(* providers/inlays.ts: the text                                           *)
(*                                                                         *)
(* A text is the sequence of its tokens: identifiers (maximal runs of word *)
(* characters, so no two are adjacent), ".", white space and punctuation.  *)
(* Offsets count tokens.                                                   *)

Words == {"theme", "props", "a", "b", "t", "ab", "styled"}

IsWord(tok) == tok \in Words

\* The token at 1-based position i, "" beyond the ends.
At(txt, i) == IF i \in 1..Len(txt) THEN txt[i] ELSE ""

Max(S) == CHOOSE x \in S : \A y \in S : y <= x
Min(S) == CHOOSE x \in S : \A y \in S : x <= y

\* \s*
SkipWs(txt, p) == Min({q \in p..(Len(txt) + 1) : At(txt, q) # " "})

\* ([\w.]+)\b from position p: the longest run of word characters and dots,
\* given back to the last word character.  [ok, end, path]
PathAt(txt, p) ==
    LET run == Max({e \in (p - 1)..Len(txt) :
                      \A i \in p..e : IsWord(txt[i]) \/ txt[i] = "."})
        e == Max({x \in (p - 1)..run : x = p - 1 \/ IsWord(txt[x])})
    IN  [ok |-> e >= p, end |-> e, path |-> SubSeq(txt, p, e)]

NoMatch == [found |-> FALSE, index |-> 0, len |-> 0, path |-> <<>>]
Matched(s, pa) == [found |-> TRUE, index |-> s - 1, len |-> pa.end - s + 1, path |-> pa.path]

\* (?:\btheme\.([\w.]+)\b) at 1-based position s
Alt1(txt, s) ==
    IF /\ At(txt, s) = "theme"
       /\ ~IsWord(At(txt, s - 1))
       /\ At(txt, s + 1) = "."
       /\ PathAt(txt, s + 2).ok
    THEN Matched(s, PathAt(txt, s + 2))
    ELSE NoMatch

\* (?:props\.theme\.([\w.]+)\b)
Alt2(txt, s) ==
    IF /\ At(txt, s) = "props"
       /\ At(txt, s + 1) = "."
       /\ At(txt, s + 2) = "theme"
       /\ At(txt, s + 3) = "."
       /\ PathAt(txt, s + 4).ok
    THEN Matched(s, PathAt(txt, s + 4))
    ELSE NoMatch

\* (?:\(\s*\{[^}]*theme[^}]*\}\s*\)\s*=>\s*theme\.([\w.]+)\b)
Alt3(txt, s) ==
    LET q1 == SkipWs(txt, s + 1)
        closes == {c \in (q1 + 1)..Len(txt) : txt[c] = "}"}
    IN  IF At(txt, s) = "(" /\ At(txt, q1) = "{" /\ closes # {}
        THEN LET c == Min(closes)
                 q2 == SkipWs(txt, c + 1)
                 q3 == SkipWs(txt, q2 + 1)
                 q4 == SkipWs(txt, q3 + 1)
             IN  IF /\ \E i \in (q1 + 1)..(c - 1) : txt[i] = "theme"
                    /\ At(txt, q2) = ")"
                    /\ At(txt, q3) = "=>"
                    /\ At(txt, q4) = "theme"
                    /\ At(txt, q4 + 1) = "."
                    /\ PathAt(txt, q4 + 2).ok
                 THEN Matched(s, PathAt(txt, q4 + 2))
                 ELSE NoMatch
        ELSE NoMatch

\* The alternatives in the regex's order at one start position.
MatchAt(txt, s) ==
    IF Alt1(txt, s).found THEN Alt1(txt, s)
    ELSE IF Alt2(txt, s).found THEN Alt2(txt, s)
    ELSE Alt3(txt, s)

\* THEME_PATH_DETECTION_REGEX.exec(text) with lastIndex = from: the match at
\* the leftmost start position at or after from.
Exec(txt, from) ==
    LET starts == {s \in (from + 1)..Len(txt) : MatchAt(txt, s).found}
    IN  IF starts = {} THEN NoMatch ELSE MatchAt(txt, Min(starts))

\* The dotted path's text as a table key: its segments, when none is empty.
\* A path with an empty segment equals no key.
RECURSIVE Segments(_)
Segments(path) ==
    IF path = <<>> THEN <<>>
    ELSE IF Len(path) = 1 THEN <<path[1]>>
    ELSE <<path[1]>> \o Segments(SubSeq(path, 3, Len(path)))

WellFormed(path) ==
    /\ Len(path) % 2 = 1
    /\ \A i \in 1..Len(path) : IF i % 2 = 1 THEN IsWord(path[i]) ELSE path[i] = "."

\* themeData.hasOwnProperty(themeKeyPath)
HasPath(tbl, path) == WellFormed(path) /\ Has(tbl, Segments(path))

-----------------------------------------------------------------------------
(* providers/inlays.ts: provideInlayHints *)

DisplayWidth == 20
KeptChars == 17

\* String(value) of a non-negative integer
RECURSIVE Digits(_)
Digits(n) ==
    LET d == <<"0", "1", "2", "3", "4", "5", "6", "7", "8", "9">>[(n % 10) + 1]
    IN  IF n < 10 THEN <<d>> ELSE Digits(n \div 10) \o <<d>>

\* A display that shortens a string as soon as it fills the width.
DisplayValueEager(val) ==
    IF val.t = "string"
    THEN IF Len(val.s) >= DisplayWidth
         THEN SubSeq(val.s, 1, KeptChars) \o <<".", ".", ".">>
         ELSE val.s
    ELSE IF val.t = "number" THEN Digits(val.n) \o val.s
    ELSE IF val.n = 1 THEN <<"t", "r", "u", "e">> ELSE <<"f", "a", "l", "s", "e">>

\* displayValue, for the values that get one
DisplayValue(val) ==
    IF val.t = "string"
    THEN IF Len(val.s) > DisplayWidth
         THEN SubSeq(val.s, 1, KeptChars) \o <<".", ".", ".">>
         ELSE val.s
    ELSE IF val.t = "number" THEN Digits(val.n) \o val.s
    ELSE IF val.n = 1 THEN <<"t", "r", "u", "e">> ELSE <<"f", "a", "l", "s", "e">>

\* A loop body that gives a hint for a value of any kind.
ProcessMatchAnyValue(tbl, offset, m, hints) ==
    IF m.path # <<>> /\ HasPath(tbl, m.path)
    THEN LET value == Get(tbl, Segments(m.path)) IN
         Append(hints, [position |-> offset + m.index + m.len,
                        label |-> <<"=", " ">> \o DisplayValue(value),
                        path |-> Segments(m.path),
                        value |-> value])
    ELSE hints

\* The body of the while loop for one match: hints afterwards.
ProcessMatch(tbl, offset, m, hints) ==
    IF m.path # <<>> /\ HasPath(tbl, m.path)
    THEN LET value == Get(tbl, Segments(m.path)) IN
         IF value.t \in {"string", "number", "boolean"}
         THEN Append(hints, [position |-> offset + m.index + m.len,
                             label |-> <<"=", " ">> \o DisplayValue(value),
                             path |-> Segments(m.path),
                             value |-> value])
         ELSE hints                                    \* continue
    ELSE hints

\* A provider that leaves the shared regex where the last call left it.
KeepLastIndex(last) == last

\* THEME_PATH_DETECTION_REGEX.lastIndex = 0; // Reset regex state
ResetLastIndex(last) == 0

\* A provider that returns its hints when cancelled.
OnCancelPartial(hints) == hints

\* if (token.isCancellationRequested) return [];
OnCancel(hints) == <<>>

\* document.getText(range)
GetText(doc, range) == SubSeq(doc, range[1] + 1, range[2])

\* A call begins: getThemeData(), the early return, the reset of the regex.
\* The token may already be cancelled.
InlayStart ==
    /\ ipc \in {"idle", "done"}
    /\ icalls < MaxCalls
    /\ icalls' = icalls + 1
    /\ \E c \in BOOLEAN : icancel' = c
    /\ ihints' = <<>>
    /\ IF ~itable.loaded
       THEN /\ ipc' = "done"
            /\ iresult' = <<>>
            /\ ioutcome' = "missing"
            /\ lastIndex' = lastIndex
       ELSE /\ ipc' = "scan"
            /\ iresult' = <<>>
            /\ ioutcome' = "running"
            /\ lastIndex' = ResetLastIndex(lastIndex)
    /\ UNCHANGED <<notInlay, idoc, irange, itable>>

\* One evaluation of the loop condition and, on a match, of the loop body.
InlayStep ==
    /\ ipc = "scan"
    /\ LET m == Exec(GetText(idoc, irange), lastIndex) IN
       IF ~m.found
       THEN /\ lastIndex' = 0                      \* a failed exec resets lastIndex
            /\ ipc' = "done"
            /\ iresult' = ihints
            /\ ioutcome' = "complete"
            /\ ihints' = ihints
       ELSE IF icancel
       THEN /\ lastIndex' = m.index + m.len
            /\ ipc' = "done"
            /\ iresult' = OnCancel(ihints)
            /\ ioutcome' = "cancelled"
            /\ ihints' = ihints
       ELSE /\ lastIndex' = m.index + m.len
            /\ ihints' = ProcessMatch(itable.tbl, irange[1], m, ihints)
            /\ UNCHANGED <<ipc, iresult, ioutcome>>
    /\ UNCHANGED <<notInlay, idoc, irange, itable, icancel, icalls>>

\* The editor cancels the request.
CancelRequest ==
    /\ ipc = "scan"
    /\ ~icancel
    /\ icancel' = TRUE
    /\ UNCHANGED <<notInlay, idoc, irange, itable, lastIndex, ihints, ipc, icalls,
                   iresult, ioutcome>>

\* The uncancelled scan of a text: the loop run to its end.
RECURSIVE ScanFrom(_, _, _, _, _)
ScanFrom(tbl, offset, txt, last, hints) ==
    LET m == Exec(txt, last) IN
    IF ~m.found THEN hints
    ELSE ScanFrom(tbl, offset, txt, m.index + m.len, ProcessMatch(tbl, offset, m, hints))

FullScan(tbl, doc, range) == ScanFrom(tbl, range[1], GetText(doc, range), 0, <<>>)

\* The documents: up to MaxPhrases expressions, each followed by ";".
Phrases ==
    { <<"theme", ".", "a", ".", "b">>,
      <<"props", ".", "theme", ".", "b">>,
      <<"(", "{", "theme", "}", ")", "=>", " ", "theme", ".", "a", ".", "b">>,
      <<"t", ".", "a", ".", "b">>,
      <<"theme", ".", "b", ".", "a">> }

RECURSIVE DocsUpTo(_)
DocsUpTo(n) ==
    IF n = 0 THEN {<<>>}
    ELSE LET prev == DocsUpTo(n - 1) IN
         prev \cup {p \o <<";">> \o d : p \in Phrases, d \in prev}

\* The whole document, and the ranges that start or end anywhere in it.
Ranges(doc) ==
    {<<f, Len(doc)>> : f \in 0..Len(doc)} \cup {<<0, t>> : t \in 0..Len(doc)}

InlayTables ==
    { << Entry(<<"a", "b">>, Str(<<"#", "1", "9", "7", "6", "d", "2">>)),
         Entry(<<"b">>, Num(14)),
         Entry(<<"b", "a">>, Str(<<"r", "g", "b", "a", "(", "0", ",", " ", "0", ",", " ", "0", ",", " ", "0", ".", "8", "7", "0", ")">>)) >>,
      << Entry(<<"a">>, JsNull),
         Entry(<<"b">>, Bool(TRUE)),
         Entry(<<"b", "a">>, Str(<<"R", "o", "b", "o", "t", "o", ",", " ", "A", "r", "i", "a", "l", ",", " ", "s", "a", "n", "s", "-", "s", "e", "r", "i", "f">>)),
         Entry(<<"a", "b">>, NumE(1, <<"0", "0", "0", "0", "0", "0", "0", "0", "0", "0", "0", "0", "0", "0", "0", "0", "0", "0", "0", "0">>)) >> }

InitInlay ==
    /\ WatcherParked
    /\ LoaderParked
    /\ FlatParked
    /\ EditParked
    /\ idoc \in DocsUpTo(MaxPhrases)
    /\ irange \in Ranges(idoc)
    /\ itable \in {Null} \cup {Ref(tbl) : tbl \in InlayTables}
    /\ lastIndex = 0
    /\ ihints = <<>>
    /\ icancel = FALSE
    /\ ipc = "idle"
    /\ icalls = 0
    /\ iresult = <<>>
    /\ ioutcome = "none"

NextInlay ==
    \/ InlayStart
    \/ InlayStep
    \/ CancelRequest

SpecInlay == InitInlay /\ [][NextInlay]_vars

-----------------------------------------------------------------------------
(* Properties of provideInlayHints                                         *)

IsPrefix(a, b) == Len(a) <= Len(b) /\ SubSeq(b, 1, Len(a)) = a

\* C6 as stated: a cancelled call returns exactly the hints it had produced.
C6_CancelReturnsPartial == ioutcome = "cancelled" => iresult = ihints

\* C6: once cancellation is requested no further hint is produced; the next
\* evaluation of the loop ends the call, with the empty list if the regex
\* finds another match (the hints already produced are discarded) and with
\* all the hints if it finds none; the call does not throw.
C6_CancelReturnsEmpty ==
    [][(ipc = "scan" /\ icancel) =>
          /\ ihints' = ihints
          /\ ipc' = "done"
          /\ IF Exec(GetText(idoc, irange), lastIndex).found
             THEN ioutcome' = "cancelled" /\ iresult' = <<>>
             ELSE ioutcome' = "complete" /\ iresult' = ihints]_vars

\* A call cancelled after it had produced a hint.
C6_Witness == ioutcome = "cancelled" /\ ihints # <<>> /\ iresult = <<>>

\* C7: whenever a call has returned, its list is a prefix of the list the
\* uncancelled scan of the same table, document and range returns, and the
\* call returned a list rather than throwing.
C7_ResultIsPrefix ==
    ipc = "done" =>
        /\ ioutcome \in {"missing", "cancelled", "complete"}
        /\ IsPrefix(iresult, IF itable.loaded THEN FullScan(itable.tbl, idoc, irange)
                                              ELSE <<>>)

\* A second call on the document, cancelled after the last match, that
\* returned the two hints of the uncancelled scan.
C7_Witness ==
    /\ ioutcome = "complete"
    /\ icalls = 2
    /\ icancel
    /\ Len(iresult) = 2
    /\ iresult = FullScan(itable.tbl, idoc, irange)

\* The accessor expressions of a text: where the PATH of each ends and the
\* PATH, whichever alternative and start position matches it.
Accessors(txt) ==
    {[end |-> MatchAt(txt, s).index + MatchAt(txt, s).len, path |-> MatchAt(txt, s).path] :
        s \in {x \in 1..Len(txt) : MatchAt(txt, x).found}}

IsScalar(val) == val.t \in {"string", "number", "boolean"}

\* C16: a call that ran to the end returns one hint for each accessor
\* expression of the range's text whose PATH is a table key with a string,
\* number or boolean value, in ascending order of position, labelled with
\* the value, and no other hint.
C16_OneHintPerScalarMatch ==
    (ioutcome = "complete") =>
        LET txt == GetText(idoc, irange)
            hits == {a \in Accessors(txt) :
                        HasPath(itable.tbl, a.path)
                            /\ IsScalar(Get(itable.tbl, Segments(a.path)))}
        IN  /\ Len(iresult) = Cardinality(hits)
            /\ \A i \in 1..Len(iresult) :
                   /\ \E a \in hits :
                         /\ iresult[i].position = irange[1] + a.end
                         /\ iresult[i].path = Segments(a.path)
                   /\ iresult[i].value = Get(itable.tbl, iresult[i].path)
                   /\ iresult[i].label = <<"=", " ">> \o DisplayValue(iresult[i].value)
            /\ \A i, j \in 1..Len(iresult) :
                   i < j => iresult[i].position < iresult[j].position

\* An uncancelled call that skipped an accessor whose value is null and
\* returned a hint for another.
C16_Witness ==
    /\ ioutcome = "complete"
    /\ ~icancel
    /\ Len(iresult) = 1
    /\ \E a \in Accessors(GetText(idoc, irange)) :
          HasPath(itable.tbl, a.path) /\ Get(itable.tbl, Segments(a.path)).t = "null"

\* C17: every hint of a call that ran to the end carries the PATH of an
\* accessor expression of the document and the offset at which that PATH
\* ends in the document, whatever the range.
C17_HintsAtDocumentPaths ==
    (ioutcome = "complete") =>
        \A i \in 1..Len(iresult) :
            \E a \in Accessors(idoc) :
                /\ iresult[i].position = a.end
                /\ iresult[i].path = Segments(a.path)

\* The value written in full: a string as it is, the digits of a number,
\* true or false.
InFull(val) ==
    CASE val.t = "string" -> val.s
      [] val.t = "number" -> Digits(val.n) \o val.s
      [] OTHER -> IF val.n = 1 THEN <<"t", "r", "u", "e">> ELSE <<"f", "a", "l", "s", "e">>

\* The text of a hint's label after "= ".
Shown(h) == SubSeq(h.label, 3, Len(h.label))

\* C26 as stated: a label is "= " and the displayed value; a string longer
\* than 20 characters is displayed as its first 17 characters and "...",
\* any other value in full; no displayed value is longer than 20 characters.
C26_DisplayAtMostTwenty ==
    \A i \in 1..Len(ihints) :
        LET h == ihints[i] IN
        /\ SubSeq(h.label, 1, 2) = <<"=", " ">>
        /\ IF h.value.t = "string" /\ Len(h.value.s) > 20
           THEN Shown(h) = SubSeq(h.value.s, 1, 17) \o <<".", ".", ".">>
           ELSE Shown(h) = InFull(h.value)
        /\ Len(Shown(h)) <= 20

\* C26: a label is "= " and the displayed value; a string longer than 20
\* characters is displayed as its first 17 characters and "...", so a
\* displayed string is never longer than 20 characters; a string of at most
\* 20 characters, a number and a boolean are displayed in full, a number
\* also when its digits are more than 20.
C26_StringsAtMostTwenty ==
    \A i \in 1..Len(ihints) :
        LET h == ihints[i] IN
        /\ SubSeq(h.label, 1, 2) = <<"=", " ">>
        /\ IF h.value.t = "string" /\ Len(h.value.s) > 20
           THEN Shown(h) = SubSeq(h.value.s, 1, 17) \o <<".", ".", ".">>
           ELSE Shown(h) = InFull(h.value)
        /\ h.value.t = "string" => Len(Shown(h)) <= 20

\* Hints for a string of 25 characters, shortened, and for a number of 21
\* digits, in full.
C26_Witness ==
    /\ Len(ihints) = 2
    /\ \E i \in 1..2 : ihints[i].value.t = "string" /\ Len(ihints[i].value.s) = 25
                          /\ Len(Shown(ihints[i])) = 20
    /\ \E i \in 1..2 : ihints[i].value.t = "number" /\ Len(Shown(ihints[i])) = 21

-----------------------------------------------------------------------------
(* scripts/gen-theme-json.ts: flattenObject                                *)
(*                                                                         *)
(* An object is the sequence of its entries in for-in order; an entry's    *)
(* value of kind "object" refers to heap[n].  A key is the sequence of its *)
(* segments: one for an identifier, several for a dotted key such as a     *)
(* flattened table has.                                                    *)

\* result[newKey] = value
Put(tbl, key, val) ==
    IF Has(tbl, key)
    THEN [i \in 1..Len(tbl) |-> IF tbl[i].k = key THEN Entry(key, val) ELSE tbl[i]]
    ELSE Append(tbl, Entry(key, val))

\* A flattenObject that names an entry by its last key alone.
NewKeyBare(parentKey, key) == key

\* A flattenObject that joins without testing parentKey: `${parentKey}.${key}`
\* with an empty parentKey is the key behind an empty segment.
NewKeyJoined(parentKey, key) == (IF parentKey # <<>> THEN parentKey ELSE <<"">>) \o key

\* parentKey ? `${parentKey}.${key}` : key
NewKey(parentKey, key) == IF parentKey # <<>> THEN parentKey \o key ELSE key

\* A marker that names a parameter whatever the function declares.
MarkerAlwaysFactor(fn) ==
    Str(<<"f", "u", "n", "c", "t", "i", "o", "n", "(", "f", "a", "c", "t", "o", "r",
          ")", " ", "=", ">", " ", "s", "t", "r", "i", "n", "g", " ", "|", " ",
          "n", "u", "m", "b", "e", "r">>)

\* `function(${obj[key].length > 0 ? 'factor' : ''}) => string | number`
Marker(fn) ==
    Str(<<"f", "u", "n", "c", "t", "i", "o", "n", "(">>
        \o (IF fn.n > 0 THEN <<"f", "a", "c", "t", "o", "r">> ELSE <<>>)
        \o <<")", " ", "=", ">", " ", "s", "t", "r", "i", "n", "g", " ", "|", " ",
             "n", "u", "m", "b", "e", "r">>)

\* typeof v === 'object' && v !== null && !Array.isArray(v) && Object.keys(v).length > 0
IsNonEmptyObject(h, v) == v.t = "object" /\ Len(h[v.n]) > 0

\* RangeError: Maximum call stack size exceeded
StackOverflow == [ok |-> FALSE, err |-> "RangeError", tbl |-> <<>>]

\* flattenObject(obj, parentKey, result) from the i-th key of obj on, as the
\* depth-th nested call; an exception ends every enclosing loop.
RECURSIVE FlattenFrom(_, _, _, _, _, _)
FlattenFrom(h, obj, i, parentKey, result, depth) ==
    IF ~result.ok \/ i > Len(obj) THEN result
    ELSE LET key == obj[i].k
             v == obj[i].v
             newKey == NewKey(parentKey, key)
             after ==
                 IF IsNonEmptyObject(h, v)
                 THEN IF depth + 1 > MaxStack
                      THEN StackOverflow
                      ELSE FlattenFrom(h, h[v.n], 1, newKey, result, depth + 1)
                 ELSE IF v.t # "function"
                 THEN [result EXCEPT !.tbl = Put(result.tbl, newKey, v)]
                 ELSE IF key = <<"spacing">>
                 THEN [result EXCEPT !.tbl = Put(result.tbl, newKey, Marker(v))]
                 ELSE result
         IN  FlattenFrom(h, obj, i + 1, parentKey, after, depth)

FlattenObject(h, obj) == FlattenFrom(h, obj, 1, <<>>, NoTable, 1)

\* const flattenedTheme = flattenObject(muiThemeObject)
Flatten ==
    /\ fpc = "input"
    /\ fout' = FlattenObject(heap, heap[1])
    /\ fpc' = IF fout'.ok THEN "flat" ELSE "failed"
    /\ UNCHANGED <<notFlat, heap, fout2, foutRev>>

\* flattenObject applied to the table it produced
Reflatten ==
    /\ fpc = "flat"
    /\ fout2' = FlattenObject(heap, fout.tbl)
    /\ fpc' = "reflat"
    /\ UNCHANGED <<notFlat, heap, fout, foutRev>>

\* for (const key in obj) on a theme that is the same but for the order in
\* which every object enumerates its keys
Reverse(seq) == [i \in 1..Len(seq) |-> seq[Len(seq) + 1 - i]]
Reordered(h) == [n \in 1..Len(h) |-> Reverse(h[n])]

\* flattenObject of the reordered theme
FlattenReordered ==
    /\ fpc \in {"flat", "failed"}
    /\ foutRev' = FlattenObject(Reordered(heap), Reordered(heap)[1])
    /\ fpc' = "reordered"
    /\ UNCHANGED <<notFlat, heap, fout, fout2>>

\* The themes: every object has the keys a and spacing or fewer; object n may
\* hold object n + 1 and may hold the theme itself (a cycle).
Absent == [t |-> "absent", s |-> <<>>, n |-> 0]

ValuesA(n) ==
    {Absent, Num(1), JsNull, Arr(0), Fn(1), Obj(1)}
        \cup (IF n < NumNodes THEN {Obj(n + 1)} ELSE {})

ValuesSpacing(n) ==
    {Absent, Fn(0), Fn(1), Str(<<"8", "p", "x">>)}
        \cup (IF n < NumNodes THEN {Obj(n + 1)} ELSE {})

ObjectOf(a, sp) ==
    (IF a.t = "absent" THEN <<>> ELSE <<Entry(<<"a">>, a)>>)
        \o (IF sp.t = "absent" THEN <<>> ELSE <<Entry(<<"spacing">>, sp)>>)

Objects(n) == {ObjectOf(a, sp) : a \in ValuesA(n), sp \in ValuesSpacing(n)}

Heaps == {h \in [1..NumNodes -> UNION {Objects(n) : n \in 1..NumNodes}] :
            \A n \in 1..NumNodes : h[n] \in Objects(n)}

InitFlatten ==
    /\ WatcherParked
    /\ LoaderParked
    /\ InlayParked
    /\ EditParked
    /\ heap \in Heaps
    /\ fpc = "input"
    /\ fout = NoTable
    /\ fout2 = NoTable
    /\ foutRev = NoTable

NextFlatten ==
    \/ Flatten
    \/ Reflatten
    \/ FlattenReordered

SpecFlatten == InitFlatten /\ [][NextFlatten]_vars

-----------------------------------------------------------------------------
(* Properties of flattenObject                                             *)

KeyNames == {"a", "spacing"}

Paths == UNION {[1..k -> KeyNames] : k \in 1..NumNodes}

\* The objects an object holds, and the objects reachable from a set.
Held(h, n) == {h[n][i].v.n : i \in {j \in 1..Len(h[n]) : h[n][j].v.t = "object"}}

RECURSIVE ReachableFrom(_, _)
ReachableFrom(h, S) ==
    LET T == S \cup UNION {Held(h, n) : n \in S}
    IN  IF T = S THEN S ELSE ReachableFrom(h, T)

\* A composite reachable from the theme is reachable from itself.
Cyclic(h) == \E n \in ReachableFrom(h, {1}) : n \in ReachableFrom(h, Held(h, n))

\* The value the keys of path p lead to from object obj.
NotReached == [found |-> FALSE, val |-> Absent]

RECURSIVE Walk(_, _, _)
Walk(h, obj, p) ==
    IF ~Has(obj, <<Head(p)>>) THEN NotReached
    ELSE LET v == Get(obj, <<Head(p)>>)
         IN  IF Len(p) = 1 THEN [found |-> TRUE, val |-> v]
             ELSE IF v.t = "object" THEN Walk(h, h[v.n], Tail(p))
             ELSE NotReached

IsLeaf(h, v) == v.t \in {"number", "string", "boolean", "null", "array", "function"}
IsEmptyObject(h, v) == v.t = "object" /\ Len(h[v.n]) = 0

UniquePaths(tbl) == \A i, j \in 1..Len(tbl) : tbl[i].k = tbl[j].k => i = j

\* C8: flattenObject of a theme in which a composite is reachable from itself
\* detects the cycle and fails with MalformedTree.
C8_CycleIsMalformedTree ==
    (fpc # "input" /\ Cyclic(heap)) => (~fout.ok /\ fout.err = "MalformedTree")

\* C9 as stated: for an acyclic theme the table has the entry (p, v) exactly
\* when the keys of p lead from the root to a leaf with value v, a function
\* being a leaf like any other.
C9_EveryLeafKeepsItsValue ==
    (fpc # "input" /\ ~Cyclic(heap)) =>
        /\ fout.ok
        /\ \A p \in Paths :
            LET w == Walk(heap, heap[1], p)
            IN  /\ (w.found /\ IsLeaf(heap, w.val)) =>
                       (Has(fout.tbl, p) /\ Get(fout.tbl, p) = w.val)
                /\ (Has(fout.tbl, p) /\ ~IsEmptyObject(heap, Get(fout.tbl, p))) =>
                       (w.found /\ IsLeaf(heap, w.val))

\* C9: for an acyclic theme flattenObject returns a table whose paths are
\* unique, one segment per key followed, and that has the entry (p, v) exactly
\* when the keys of p lead from the root to v where v is a value that is
\* neither a function nor a non-empty object, or to a function under the key
\* spacing where v is the string describing it; a function under another key
\* and a non-empty object have no entry.
C9_EntriesAreTheLeaves ==
    (fpc # "input" /\ ~Cyclic(heap)) =>
        /\ fout.ok
        /\ UniquePaths(fout.tbl)
        /\ \A i \in 1..Len(fout.tbl) : fout.tbl[i].k \in Paths
        /\ \A p \in Paths :
            LET w == Walk(heap, heap[1], p)
                kept == w.found /\ w.val.t # "function" /\ ~IsNonEmptyObject(heap, w.val)
                described == w.found /\ w.val.t = "function" /\ p[Len(p)] = "spacing"
            IN  /\ Has(fout.tbl, p) <=> (kept \/ described)
                /\ kept => Get(fout.tbl, p) = w.val
                /\ described => Get(fout.tbl, p) = Marker(w.val)

\* A theme whose nested object holds a number, a function under a, and a
\* function under spacing, flattened.
C9_Witness ==
    /\ fpc = "flat"
    /\ ~Cyclic(heap)
    /\ Has(fout.tbl, <<"a", "a">>)
    /\ Walk(heap, heap[1], <<"spacing">>).val.t = "function"
    /\ Has(fout.tbl, <<"spacing">>)
    /\ Walk(heap, heap[1], <<"a", "spacing">>).found
    /\ Len(fout.tbl) >= 3

\* C10: for an acyclic theme, flattenObject of the table flattenObject
\* returned has the same paths with the same values.
C10_Idempotent ==
    (fpc = "reflat" /\ ~Cyclic(heap)) =>
        /\ fout2.ok
        /\ \A p \in {fout.tbl[i].k : i \in 1..Len(fout.tbl)}
                \cup {fout2.tbl[i].k : i \in 1..Len(fout2.tbl)} :
            /\ Has(fout.tbl, p) /\ Has(fout2.tbl, p)
            /\ Get(fout.tbl, p) = Get(fout2.tbl, p)
        /\ Len(fout2.tbl) = Len(fout.tbl)

\* A table with a nested path, a described function and an array, flattened
\* again.
C10_Witness ==
    /\ fpc = "reflat"
    /\ ~Cyclic(heap)
    /\ \E i \in 1..Len(fout.tbl) : Len(fout.tbl[i].k) > 1
    /\ \E i \in 1..Len(fout.tbl) : fout.tbl[i].v = Marker(Fn(1))
    /\ \E i \in 1..Len(fout.tbl) : fout.tbl[i].v.t = "array"

\* C21: the table has no entry whose path leads to an object with no keys.
C21_EmptyCompositeOmitted ==
    (fpc # "input" /\ fout.ok) =>
        \A p \in Paths :
            LET w == Walk(heap, heap[1], p)
            IN  (w.found /\ IsEmptyObject(heap, w.val)) => ~Has(fout.tbl, p)

\* C22: every value of the table is a string, a number or a boolean.
C22_ValuesAreScalars ==
    (fpc # "input" /\ fout.ok) =>
        \A i \in 1..Len(fout.tbl) : fout.tbl[i].v.t \in {"string", "number", "boolean"}

\* C23: a function reached by the keys of a path has, when its key is
\* spacing, the entry 'function(factor) => string | number', or
\* 'function() => string | number' if it declares no parameter, at any
\* depth; under any other key it has no entry; and no path continues
\* through a function.
C23_FunctionMarker ==
    (fpc # "input" /\ fout.ok) =>
        /\ \A p \in Paths :
            LET w == Walk(heap, heap[1], p) IN
            (w.found /\ w.val.t = "function") =>
                IF p[Len(p)] = "spacing"
                THEN /\ Has(fout.tbl, p)
                     /\ Get(fout.tbl, p).t = "string"
                     /\ Get(fout.tbl, p).s =
                            IF w.val.n > 0
                            THEN <<"f", "u", "n", "c", "t", "i", "o", "n", "(",
                                   "f", "a", "c", "t", "o", "r", ")", " ", "=", ">", " ",
                                   "s", "t", "r", "i", "n", "g", " ", "|", " ",
                                   "n", "u", "m", "b", "e", "r">>
                            ELSE <<"f", "u", "n", "c", "t", "i", "o", "n", "(",
                                   ")", " ", "=", ">", " ",
                                   "s", "t", "r", "i", "n", "g", " ", "|", " ",
                                   "n", "u", "m", "b", "e", "r">>
                ELSE ~Has(fout.tbl, p)
        /\ \A i \in 1..Len(fout.tbl) :
              \A k \in 1..(Len(fout.tbl[i].k) - 1) :
                 Walk(heap, heap[1], SubSeq(fout.tbl[i].k, 1, k)).val.t # "function"

\* A theme with a function without parameter under spacing at the top, and
\* below it a function under spacing and a function under a.
C23_Witness ==
    /\ fpc = "flat"
    /\ Walk(heap, heap[1], <<"spacing">>).val = Fn(0)
    /\ Walk(heap, heap[1], <<"a", "spacing">>).val = Fn(1)
    /\ Walk(heap, heap[1], <<"a", "a">>).val = Fn(1)
    /\ Len(fout.tbl) = 2

\* The mapping a table is: its paths and the value of each.
Mapping(tbl) == {<<tbl[i].k, tbl[i].v>> : i \in 1..Len(tbl)}

\* C24: a theme and the theme with the keys of every object enumerated in
\* the reverse order are flattened to the same mapping from paths to
\* values, or both fail.
C24_OrderIndependent ==
    (fpc = "reordered") =>
        /\ foutRev.ok = fout.ok
        /\ Mapping(foutRev.tbl) = Mapping(fout.tbl)
        /\ UniquePaths(foutRev.tbl)

\* A theme of two objects with two keys each, flattened in both orders to
\* tables that list their entries differently.
C24_Witness ==
    /\ fpc = "reordered"
    /\ fout.ok
    /\ Len(fout.tbl) = 3
    /\ foutRev.tbl # fout.tbl
    /\ \E i \in 1..Len(fout.tbl) : Len(fout.tbl[i].k) = 2

-----------------------------------------------------------------------------
(* providers/hover.ts, providers/completions.ts: the characters of a text  *)

\* The characters of a token.
Chars(tok) ==
    CASE tok = "theme" -> <<"t", "h", "e", "m", "e">>
      [] tok = "props" -> <<"p", "r", "o", "p", "s">>
      [] tok = "styled" -> <<"s", "t", "y", "l", "e", "d">>
      [] tok = "ab" -> <<"a", "b">>
      [] tok = "${" -> <<"$", "{">>
      [] tok = "=>" -> <<"=", ">">>
      [] OTHER -> <<tok>>

RECURSIVE ToChars(_)
ToChars(txt) == IF txt = <<>> THEN <<>> ELSE Chars(Head(txt)) \o ToChars(Tail(txt))

\* String.prototype.startsWith, endsWith, includes
StartsWith(cs, pre) == Len(pre) <= Len(cs) /\ SubSeq(cs, 1, Len(pre)) = pre
EndsWith(cs, suf) == Len(suf) <= Len(cs) /\ SubSeq(cs, Len(cs) - Len(suf) + 1, Len(cs)) = suf
Includes(cs, sub) == \E i \in 0..(Len(cs) - Len(sub)) : SubSeq(cs, i + 1, i + Len(sub)) = sub

\* A token of a match of [\w.]+
RunTok(tok) == IsWord(tok) \/ tok = "."

-----------------------------------------------------------------------------
(* providers/hover.ts: provideHover *)

NoRange == [found |-> FALSE, from |-> 0, to |-> 0]

\* document.getWordRangeAtPosition(position, /[\w.]+/): the maximal run of
\* word characters and dots that contains the position or ends or starts at
\* it; tokens from..to, 1-based.
GetWordRangeAtPosition(line, pos) ==
    LET runs == {r \in (1..Len(line)) \X (1..Len(line)) :
                    /\ r[1] <= r[2]
                    /\ \A i \in r[1]..r[2] : RunTok(line[i])
                    /\ ~RunTok(At(line, r[1] - 1))
                    /\ ~RunTok(At(line, r[2] + 1))
                    /\ r[1] - 1 <= pos
                    /\ pos <= r[2]}
    IN  IF runs = {} THEN NoRange
        ELSE LET r == CHOOSE x \in runs : TRUE IN [found |-> TRUE, from |-> r[1], to |-> r[2]]

\* themeData[key] is truthy
Truthy(val) ==
    CASE val.t = "string" -> val.s # <<>>
      [] val.t = "number" -> val.n # 0
      [] val.t = "boolean" -> val.n = 1
      [] val.t = "null" -> FALSE
      [] OTHER -> TRUE

\* getExtendedHoverText: the match of /([\w$.]+)/g that contains the position
\* is the hovered run, with the "$" of a "${" that follows it; it is returned
\* when it starts with "theme." and the rest is a key with a truthy value.
\* <<>> stands for null.
GetExtendedHoverText(tbl, line, wr) ==
    LET run == SubSeq(line, wr.from, wr.to)
        potentialPath == ToChars(run) \o (IF At(line, wr.to + 1) = "${" THEN <<"$">> ELSE <<>>)
        rest == SubSeq(run, 3, Len(run))
    IN  IF /\ (StartsWith(potentialPath, ToChars(<<"theme", ".">>)) \/ Includes(potentialPath, <<".">>))
           /\ Includes(potentialPath, ToChars(run))
           /\ StartsWith(potentialPath, ToChars(<<"theme", ".">>))
           /\ At(line, wr.to + 1) # "${"
           /\ HasPath(tbl, rest)
           /\ Truthy(Get(tbl, Segments(rest)))
        THEN run
        ELSE <<>>

\* ([\w.]+)$ from 1-based position p of txt: the tokens to the end, <<>> when
\* there is none or one of them is no word character or dot.
TailPath(txt, p) ==
    IF p <= Len(txt) /\ \A i \in p..Len(txt) : RunTok(txt[i])
    THEN SubSeq(txt, p, Len(txt))
    ELSE <<>>

\* /\btheme\.([\w.]+)$/ : specificMatch[1] of the leftmost match, <<>> if none
ThemePattern(txt) ==
    LET starts == {s \in 1..Len(txt) :
                      /\ txt[s] = "theme"
                      /\ ~IsWord(At(txt, s - 1))
                      /\ At(txt, s + 1) = "."
                      /\ TailPath(txt, s + 2) # <<>>}
    IN  IF starts = {} THEN <<>> ELSE TailPath(txt, Min(starts) + 2)

\* /\bprops\.theme\.([\w.]+)$/
PropsThemePattern(txt) ==
    LET starts == {s \in 1..Len(txt) :
                      /\ txt[s] = "props"
                      /\ ~IsWord(At(txt, s - 1))
                      /\ At(txt, s + 1) = "."
                      /\ At(txt, s + 2) = "theme"
                      /\ At(txt, s + 3) = "."
                      /\ TailPath(txt, s + 4) # <<>>}
    IN  IF starts = {} THEN <<>> ELSE TailPath(txt, Min(starts) + 4)

\* /\(\s*\{\s*theme\s*\}\s*\)\s*=>\s*theme\.([\w.]+)$/
DestructuredPattern(txt) ==
    LET PathFrom(s) ==
            LET q1 == SkipWs(txt, s + 1)
                q2 == SkipWs(txt, q1 + 1)
                q3 == SkipWs(txt, q2 + 1)
                q4 == SkipWs(txt, q3 + 1)
                q5 == SkipWs(txt, q4 + 1)
                q6 == SkipWs(txt, q5 + 1)
            IN  IF /\ At(txt, s) = "("
                   /\ At(txt, q1) = "{"
                   /\ At(txt, q2) = "theme"
                   /\ At(txt, q3) = "}"
                   /\ At(txt, q4) = ")"
                   /\ At(txt, q5) = "=>"
                   /\ At(txt, q6) = "theme"
                   /\ At(txt, q6 + 1) = "."
                THEN TailPath(txt, q6 + 2)
                ELSE <<>>
        starts == {s \in 1..Len(txt) : PathFrom(s) # <<>>}
    IN  IF starts = {} THEN <<>> ELSE PathFrom(Min(starts))

\* The for loop over themeAccessPatterns: the first pattern whose capture is
\* the hovered word or ends with it gives the path; <<>> if none does.
PatternPath(lineTillHover, hoveredWord) ==
    LET Accept(m1) == m1 # <<>> /\ (hoveredWord = m1 \/ EndsWith(ToChars(m1), ToChars(hoveredWord)))
    IN  IF Accept(ThemePattern(lineTillHover)) THEN ThemePattern(lineTillHover)
        ELSE IF Accept(PropsThemePattern(lineTillHover)) THEN PropsThemePattern(lineTillHover)
        ELSE IF Accept(DestructuredPattern(lineTillHover)) THEN DestructuredPattern(lineTillHover)
        ELSE <<>>

\* fullThemePath after the three attempts; <<>> stands for null and for "".
FullThemePath(tbl, line, wr) ==
    LET hoveredWord == SubSeq(line, wr.from, wr.to)
        ext == GetExtendedHoverText(tbl, line, wr)
    IN  IF StartsWith(ToChars(hoveredWord), ToChars(<<"theme", ".">>))
        THEN SubSeq(hoveredWord, 3, Len(hoveredWord))
        ELSE IF StartsWith(ToChars(ext), ToChars(<<"theme", ".">>))
        THEN SubSeq(ext, 3, Len(ext))
        ELSE PatternPath(SubSeq(line, 1, wr.to), hoveredWord)

\* A fallback that takes any hovered key for a theme path.
StyledContextAny(line, styled) == TRUE

\* lineText.includes('${') && (lineText.includes('styled') ||
\*     document.fileName.endsWith('.styled.ts'))
StyledContext(line, styled) ==
    /\ Includes(ToChars(line), <<"$", "{">>)
    /\ (Includes(ToChars(line), ToChars(<<"styled">>)) \/ styled)

NullResult(kind) == [NoResult EXCEPT !.kind = kind]

HoverResult(path, val, inf) ==
    [NoResult EXCEPT !.kind = "hover", !.ret = "hover", !.path = Segments(path),
                     !.value = val, !.inferred = inf]

\* provideHover(document, position, token) with themeData = ref
ProvideHoverAt(ref, line, pos, styled) ==
    IF ~ref.loaded THEN NullResult("hover")
    ELSE LET wr == GetWordRangeAtPosition(line, pos) IN
         IF ~wr.found THEN NullResult("hover")
         ELSE LET hoveredWord == SubSeq(line, wr.from, wr.to)
                  fullThemePath == FullThemePath(ref.tbl, line, wr)
              IN  IF fullThemePath # <<>> /\ HasPath(ref.tbl, fullThemePath)
                  THEN HoverResult(fullThemePath, Get(ref.tbl, Segments(fullThemePath)), FALSE)
                  ELSE IF /\ fullThemePath = <<>>
                          /\ HasPath(ref.tbl, hoveredWord)
                          /\ StyledContext(line, styled)
                  THEN HoverResult(hoveredWord, Get(ref.tbl, Segments(hoveredWord)), TRUE)
                  ELSE NullResult("hover")


-----------------------------------------------------------------------------
(* providers/completions.ts: THEME_ACCESS_PATTERN                          *)
(* The texts are lower case, so the i flag changes nothing.                *)

\* ([\w.]*)$ from 1-based position p: every token to the end is a word or a dot
TypedTailOk(txt, p) == p >= 1 /\ \A i \in p..Len(txt) : RunTok(txt[i])

\* props\.theme\.  at s: where it ends, as a set of next positions
AccessProps(txt, s) ==
    IF At(txt, s) = "props" /\ At(txt, s + 1) = "." /\ At(txt, s + 2) = "theme"
        /\ At(txt, s + 3) = "."
    THEN {s + 4} ELSE {}

\* \(\{[\s\S]*?theme[\s\S]*?\}\)\s*=>\s*theme\.
AccessDestructured(txt, s) ==
    IF At(txt, s) = "(" /\ At(txt, s + 1) = "{"
    THEN {SkipWs(txt, SkipWs(txt, c + 2) + 1) + 2 : c \in
            {c \in (s + 3)..Len(txt) :
                /\ \E i \in (s + 2)..(c - 1) : txt[i] = "theme"
                /\ txt[c] = "}"
                /\ At(txt, c + 1) = ")"
                /\ At(txt, SkipWs(txt, c + 2)) = "=>"
                /\ At(txt, SkipWs(txt, SkipWs(txt, c + 2) + 1)) = "theme"
                /\ At(txt, SkipWs(txt, SkipWs(txt, c + 2) + 1) + 1) = "."}}
    ELSE {}

\* \(\s*\w+\s*\)\s*=>\s*\w+\.theme\.
AccessArrowParam(txt, s) ==
    LET q1 == SkipWs(txt, s + 1)
        q2 == SkipWs(txt, q1 + 1)
        q3 == SkipWs(txt, q2 + 1)
        q4 == SkipWs(txt, q3 + 1)
    IN  IF /\ At(txt, s) = "("
           /\ IsWord(At(txt, q1))
           /\ At(txt, q2) = ")"
           /\ At(txt, q3) = "=>"
           /\ IsWord(At(txt, q4))
           /\ At(txt, q4 + 1) = "."
           /\ At(txt, q4 + 2) = "theme"
           /\ At(txt, q4 + 3) = "."
        THEN {q4 + 4} ELSE {}

\* \{\s*theme\s*\}\.
AccessBraces(txt, s) ==
    LET q1 == SkipWs(txt, s + 1)
        q2 == SkipWs(txt, q1 + 1)
    IN  IF At(txt, s) = "{" /\ At(txt, q1) = "theme" /\ At(txt, q2) = "}"
            /\ At(txt, q2 + 1) = "."
        THEN {q2 + 2} ELSE {}

\* An accessor alternative that takes any identifier for the theme.
AccessAnyWord(txt, s) ==
    IF IsWord(At(txt, s)) /\ ~IsWord(At(txt, s - 1)) /\ At(txt, s + 1) = "."
    THEN {s + 2} ELSE {}

\* \btheme\.
AccessTheme(txt, s) ==
    IF At(txt, s) = "theme" /\ ~IsWord(At(txt, s - 1)) /\ At(txt, s + 1) = "."
    THEN {s + 2} ELSE {}

\* The match that starts at s: where match[1] starts, 0 if no alternative
\* followed by ([\w.]*)$ matches there.
AccessAt(txt, s) ==
    LET Ok(E) == {p \in E : TypedTailOk(txt, p)}
    IN  IF Ok(AccessProps(txt, s)) # {} THEN Min(Ok(AccessProps(txt, s)))
        ELSE IF Ok(AccessDestructured(txt, s)) # {} THEN Min(Ok(AccessDestructured(txt, s)))
        ELSE IF Ok(AccessArrowParam(txt, s)) # {} THEN Min(Ok(AccessArrowParam(txt, s)))
        ELSE IF Ok(AccessBraces(txt, s)) # {} THEN Min(Ok(AccessBraces(txt, s)))
        ELSE IF Ok(AccessTheme(txt, s)) # {} THEN Min(Ok(AccessTheme(txt, s)))
        ELSE 0

\* THEME_ACCESS_PATTERN.exec(textBeforeCursor): the match at the leftmost
\* start; typed is match[1] || ''.
ThemeAccess(txt) ==
    LET starts == {s \in 1..Len(txt) : AccessAt(txt, s) # 0}
    IN  IF starts = {} THEN [found |-> FALSE, typed |-> <<>>]
        ELSE [found |-> TRUE, typed |-> SubSeq(txt, AccessAt(txt, Min(starts)), Len(txt))]

-----------------------------------------------------------------------------
(* providers/completions.ts: the loop of provideCompletionItems            *)

Dot == <<".">>

\* A key of the table as the string it is: its segments joined by "."
RECURSIVE KeyChars(_)
KeyChars(key) ==
    IF key = <<>> THEN <<>>
    ELSE IF Len(key) = 1 THEN Chars(key[1])
    ELSE Chars(key[1]) \o Dot \o KeyChars(Tail(key))

\* str.split('.')
RECURSIVE Split(_)
Split(cs) ==
    LET dots == {i \in 1..Len(cs) : cs[i] = "."}
    IN  IF dots = {} THEN <<cs>>
        ELSE <<SubSeq(cs, 1, Min(dots) - 1)>> \o Split(SubSeq(cs, Min(dots) + 1, Len(cs)))

\* str.lastIndexOf('.'), 1-based, 0 when there is none
LastDot(cs) == Max({0} \cup {i \in 1..Len(cs) : cs[i] = "."})

HasKeyChars(tbl, cs) == \E i \in 1..Len(tbl) : KeyChars(tbl[i].k) = cs
GetKeyChars(tbl, cs) == tbl[CHOOSE i \in 1..Len(tbl) : KeyChars(tbl[i].k) = cs].v

\* String(value) of a string, number or boolean
StringOf(val) ==
    IF val.t = "string" THEN val.s
    ELSE IF val.t = "number" THEN Digits(val.n) \o val.s
    ELSE IF val.n = 1 THEN <<"t", "r", "u", "e">> ELSE <<"f", "a", "l", "s", "e">>

\* suggestionSegment for a key that starts with typedPath
SuggestionSegment(typedPath, fullThemePath) ==
    IF EndsWith(typedPath, Dot)
    THEN Split(SubSeq(fullThemePath, Len(typedPath) + 1, Len(fullThemePath)))[1]
    ELSE Split(fullThemePath)[Len(Split(typedPath))]

\* A path that appends the segment to whatever is typed.
PotentialFullThemePathAppended(typedPath, suggestionSegment) == typedPath \o suggestionSegment

PotentialFullThemePath(typedPath, suggestionSegment) ==
    IF EndsWith(typedPath, Dot) THEN typedPath \o suggestionSegment
    ELSE IF LastDot(typedPath) = 0 THEN suggestionSegment
    ELSE SubSeq(typedPath, 1, LastDot(typedPath)) \o suggestionSegment

\* A test for children that takes any key that continues the path.
HasChildrenLoose(tbl, path) ==
    \E i \in 1..Len(tbl) : StartsWith(KeyChars(tbl[i].k), path) /\ KeyChars(tbl[i].k) # path

\* for (const p in themeData) if (p.startsWith(potentialFullThemePath + ".") ...
HasChildren(tbl, path) ==
    \E i \in 1..Len(tbl) :
        StartsWith(KeyChars(tbl[i].k), path \o Dot) /\ KeyChars(tbl[i].k) # path

\* A documentation that never shows the value.
DocumentationPathOnly(tbl, path) == [form |-> "path", text |-> <<>>]

\* item.documentation: "Value: `...`" with the value's text, "(Object)", or
\* the path alone
Documentation(tbl, path) ==
    IF HasKeyChars(tbl, path)
    THEN IF GetKeyChars(tbl, path).t \in {"string", "number", "boolean"}
         THEN [form |-> "value", text |-> StringOf(GetKeyChars(tbl, path))]
         ELSE [form |-> "object", text |-> <<>>]
    ELSE [form |-> "path", text |-> <<>>]

\* A set of suggestions that forgets what it holds.
SeenNever(uniq, seg) == FALSE

\* uniqueSuggestions.has(suggestionSegment)
Seen(uniq, seg) == seg \in uniq

\* The body of the for-in loop for the key at index i: [uniq, items] afterwards
LoopBody(tbl, typedPath, i, uniq, items) ==
    LET fullThemePath == KeyChars(tbl[i].k)
        skip == [uniq |-> uniq, items |-> items]
    IN  IF ~StartsWith(fullThemePath, typedPath) THEN skip
        ELSE IF ~EndsWith(typedPath, Dot) /\ Len(Split(fullThemePath)) < Len(Split(typedPath))
        THEN skip
        ELSE LET seg == SuggestionSegment(typedPath, fullThemePath)
                 path == PotentialFullThemePath(typedPath, seg)
                 hasChildren == HasChildren(tbl, path)
             IN  IF seg = <<>> \/ Seen(uniq, seg) THEN skip
                 ELSE IF /\ ~HasKeyChars(tbl, path)
                         /\ ~hasChildren
                         /\ ~\E j \in 1..Len(tbl) : StartsWith(KeyChars(tbl[j].k), path)
                 THEN [uniq |-> uniq \cup {seg}, items |-> items]
                 ELSE [uniq |-> uniq \cup {seg},
                       items |-> Append(items,
                           [label |-> seg,
                            insertText |-> IF hasChildren THEN seg \o Dot ELSE seg,
                            kind |-> IF hasChildren THEN "Module" ELSE "Value",
                            retrigger |-> hasChildren,
                            detail |-> path,
                            documentation |-> Documentation(tbl, path)])]


\* The for-in loop run to its end from the key at index i: completions
RECURSIVE CompleteFrom(_, _, _, _, _)
CompleteFrom(tbl, typedPath, i, uniq, items) ==
    IF i > Len(tbl) THEN items
    ELSE LET b == LoopBody(tbl, typedPath, i, uniq, items)
         IN  CompleteFrom(tbl, typedPath, i + 1, b.uniq, b.items)

\* provideCompletionItems for a typed path on a loaded table
Complete(tbl, typedPath) == CompleteFrom(tbl, typedPath, 1, {}, <<>>)

\* An entry that answers a missing table with the empty list.
CompletionEntryEmptyOnMissing(ref, line, pos) ==
    IF ~ThemeAccess(SubSeq(line, 1, pos)).found
    THEN [returned |-> TRUE, res |-> NullResult("completion")]
    ELSE IF ~ref.loaded
    THEN [returned |-> TRUE, res |-> [NoResult EXCEPT !.kind = "completion", !.ret = "items"]]
    ELSE [returned |-> FALSE, res |-> [NoResult EXCEPT !.kind = "completion", !.ret = "running"]]

\* provideCompletionItems up to the loop: whether it has returned, and what
CompletionEntry(ref, line, pos) ==
    IF ~ThemeAccess(SubSeq(line, 1, pos)).found
    THEN [returned |-> TRUE, res |-> NullResult("completion")]
    ELSE IF ~ref.loaded
    THEN [returned |-> TRUE, res |-> NullResult("completion")]
    ELSE [returned |-> FALSE, res |-> [NoResult EXCEPT !.kind = "completion", !.ret = "running"]]

\* provideInlayHints for the whole line, the token not cancelled
ProvideInlayHintsAt(ref, line) ==
    [NoResult EXCEPT !.kind = "inlay", !.ret = "hints",
                     !.hints = IF ref.loaded
                               THEN FullScan(ref.tbl, line, <<0, Len(line)>>)
                               ELSE <<>>]

\* The editor asks for completions at the position.
CompleteStart ==
    /\ epc \in {"idle", "done"}
    /\ \E c \in BOOLEAN : ecancel' = c
    /\ LET e == CompletionEntry(etable, eline, epos) IN
       /\ eres' = e.res
       /\ epc' = IF e.returned THEN "done" ELSE "scan"
    /\ cidx' = 0
    /\ cuniq' = {}
    /\ citems' = <<>>
    /\ UNCHANGED <<notEdit, eline, epos, etable, estyled, ithemeData>>

\* One turn of the for-in loop, or the return after the last key.
CompleteStep ==
    /\ epc = "scan"
    /\ IF cidx = Len(etable.tbl)
       THEN /\ epc' = "done"
            /\ eres' = [eres EXCEPT !.ret = "items", !.items = citems]
            /\ UNCHANGED <<cidx, cuniq, citems>>
       ELSE LET typedPath == ToChars(ThemeAccess(SubSeq(eline, 1, epos)).typed)
                b == LoopBody(etable.tbl, typedPath, cidx + 1, cuniq, citems)
            IN  /\ cidx' = cidx + 1
                /\ cuniq' = b.uniq
                /\ citems' = b.items
                /\ UNCHANGED <<epc, eres>>
    /\ UNCHANGED <<notEdit, eline, epos, etable, estyled, ecancel, ithemeData>>

\* The editor cancels the completion request.
CompleteCancel ==
    /\ epc = "scan"
    /\ ~ecancel
    /\ ecancel' = TRUE
    /\ UNCHANGED <<notEdit, eline, epos, etable, estyled, epc, cidx, cuniq, citems, eres,
                   ithemeData>>

\* The editor asks for the hover at the position.
HoverCall ==
    /\ epc \in {"idle", "done"}
    /\ eres' = ProvideHoverAt(etable, eline, epos, estyled)
    /\ epc' = "done"
    /\ UNCHANGED <<notEdit, eline, epos, etable, estyled, ecancel, cidx, cuniq, citems,
                   ithemeData>>

\* What provideInlayHints leaves alone when called on the line.
inlayCallFrame == <<loaderVars, flatVars, watcherVars, idoc, irange, itable, ihints, icancel, ipc, icalls,
                    iresult, ioutcome, eline, epos, etable, estyled, cidx, cuniq, citems>>

\* The editor asks for the inlay hints of the line and does not cancel:
\* this.themeData = getThemeData(), the reset of the shared regex, the loop
\* to the failed exec that leaves lastIndex at 0.
InlayCall ==
    /\ epc \in {"idle", "done"}
    /\ ithemeData' = etable
    /\ ecancel' = FALSE
    /\ eres' = [NoResult EXCEPT !.kind = "inlay", !.ret = "hints",
                    !.hints = IF ithemeData'.loaded
                              THEN ScanFrom(ithemeData'.tbl, 0, eline,
                                            ResetLastIndex(lastIndex), <<>>)
                              ELSE <<>>]
    /\ lastIndex' = IF ithemeData'.loaded THEN 0 ELSE lastIndex
    /\ epc' = "done"
    /\ UNCHANGED inlayCallFrame

\* The editor asks for the inlay hints of the line with a token that is
\* cancelled: the call returns [] at the first match and leaves the shared
\* regex behind that match.
InlayCallCancelled ==
    /\ epc \in {"idle", "done"}
    /\ etable.loaded
    /\ Exec(eline, ResetLastIndex(lastIndex)).found
    /\ ithemeData' = etable
    /\ ecancel' = TRUE
    /\ eres' = [NoResult EXCEPT !.kind = "inlay", !.ret = "hints",
                                !.hints = OnCancel(<<>>)]
    /\ lastIndex' = LET m == Exec(eline, ResetLastIndex(lastIndex)) IN m.index + m.len
    /\ epc' = "done"
    /\ UNCHANGED inlayCallFrame

\* The accessor expressions of the lines: the three forms, an alias of the
\* destructured theme, an alias named like a first segment, a bare path.
Expressions ==
    { <<"theme", ".", "a", ".", "b">>,
      <<"theme", ".", "ab">>,
      <<"props", ".", "theme", ".", "a", ".", "b">>,
      <<"(", "{", "theme", "}", ")", "=>", " ", "theme", ".", "a", ".", "b">>,
      <<"(", "{", "theme", ":", "t", "}", ")", "=>", " ", "t", ".", "a", ".", "b">>,
      <<"(", "{", "theme", ":", "a", "}", ")", "=>", " ", "a", ".", "b">>,
      <<"a", ".", "b">> }

\* A line: an expression, in or out of ${ }, after styled.a and the
\* opening quote of the template (written "'") or not.
Lines ==
    {pre \o body : pre \in {<<>>, <<"styled", ".", "a", "'">>},
                   body \in Expressions \cup {<<"${">> \o e \o <<"}">> : e \in Expressions}}

EditTables ==
    { << Entry(<<"a", "b">>, Str(<<"#", "1", "9", "7", "6", "d", "2">>)),
         Entry(<<"ab">>, Bool(TRUE)),
         Entry(<<"a", "ab">>, Num(14)),
         Entry(<<"b">>, Arr(0)) >>,
      << Entry(<<"a">>, Num(0)),
         Entry(<<"ab">>, Str(<<"x">>)),
         Entry(<<"b", "a">>, Num(7)) >> }

InitEdit ==
    /\ WatcherParked
    /\ LoaderParked
    /\ InlayParked
    /\ FlatParked
    /\ eline \in Lines
    /\ epos \in 0..Len(eline)
    /\ etable \in {Null} \cup {Ref(tbl) : tbl \in EditTables}
    /\ estyled \in BOOLEAN
    /\ ecancel = FALSE
    /\ epc = "idle"
    /\ cidx = 0
    /\ cuniq = {}
    /\ citems = <<>>
    /\ eres = NoResult
    /\ ithemeData \in {Null} \cup {Ref(tbl) : tbl \in EditTables}

NextEdit ==
    \/ CompleteStart
    \/ CompleteStep
    \/ CompleteCancel
    \/ HoverCall
    \/ InlayCall
    \/ InlayCallCancelled

SpecEdit == InitEdit /\ [][NextEdit]_vars


-----------------------------------------------------------------------------
(* Properties of provideCompletionItems                                    *)

\* The call of provideCompletionItems that returned a list.
Completed == eres.kind = "completion" /\ eres.ret = "items"

\* typedPath of the call, and the part of it up to its last dot
TypedPath == ToChars(ThemeAccess(SubSeq(eline, 1, epos)).typed)
TypedBase == SubSeq(TypedPath, 1, LastDot(TypedPath))

\* The keys (by index) that start with the typed prefix, and the segment of
\* each at the boundary of the prefix: the one after as many segments as the
\* prefix has dots.
Candidates == {i \in 1..Len(etable.tbl) : StartsWith(KeyChars(etable.tbl[i].k), TypedPath)}
NextSegment(i) ==
    Chars(etable.tbl[i].k[Cardinality({d \in 1..Len(TypedPath) : TypedPath[d] = "."}) + 1])
FirstSeen == {i \in Candidates : \A j \in Candidates : j < i => NextSegment(j) # NextSegment(i)}

\* C11: the list returned holds one suggestion for each distinct next
\* segment of the keys that start with the typed prefix, in the order in
\* which the table first shows them.
C11_OneSuggestionPerSegment ==
    Completed =>
        /\ Len(eres.items) = Cardinality(FirstSeen)
        /\ \A x \in 1..Len(eres.items) :
              \E i \in FirstSeen :
                 /\ eres.items[x].label = NextSegment(i)
                 /\ Cardinality({j \in FirstSeen : j < i}) = x - 1

\* A list of two or more suggestions from a table in which a later key
\* repeats the segment of an earlier one.
C11_Witness ==
    /\ Completed
    /\ Len(eres.items) >= 2
    /\ Cardinality(Candidates) > Len(eres.items)

\* C12: a suggestion is intermediate (a trailing dot is inserted and the
\* completion is triggered again) exactly when some key begins with the
\* typed prefix up to its last dot, the segment and a dot; otherwise it is
\* a value, inserted as it is.
C12_IntermediateIffChildren ==
    Completed =>
        \A x \in 1..Len(eres.items) :
            LET it == eres.items[x]
                deeper == \E i \in 1..Len(etable.tbl) :
                             StartsWith(KeyChars(etable.tbl[i].k), TypedBase \o it.label \o Dot)
            IN  /\ it.retrigger = deeper
                /\ it.kind = (IF deeper THEN "Module" ELSE "Value")
                /\ it.insertText = (IF deeper THEN it.label \o Dot ELSE it.label)

\* A value suggested mid-segment while another key continues its characters,
\* next to an intermediate suggestion.
C12_Witness ==
    /\ Completed
    /\ \E x, y \in 1..Len(eres.items) :
          /\ eres.items[x].retrigger
          /\ ~eres.items[y].retrigger
          /\ \E i \in 1..Len(etable.tbl) :
                /\ StartsWith(KeyChars(etable.tbl[i].k), TypedBase \o eres.items[y].label)
                /\ KeyChars(etable.tbl[i].k) # TypedBase \o eres.items[y].label

TypedPartial == SubSeq(TypedPath, Len(TypedBase) + 1, Len(TypedPath))

\* The suggestions of a list whose segment starts with s.
StartingWith(items, s) ==
    LET Keep(it) == StartsWith(it.label, s) IN SelectSeq(items, Keep)

\* C25: the list returned for a typed path that ends in a partial segment
\* is the list for the path up to its last dot, restricted to the
\* suggestions whose segment starts with the partial segment: the same
\* suggestions, marked and documented the same, in the same order.
C25_MidSegmentAsBoundary ==
    Completed =>
        eres.items = StartingWith(Complete(etable.tbl, TypedBase), TypedPartial)

\* A list for a partial segment that keeps two of the boundary's
\* suggestions, one longer than what is typed, and drops another.
C25_Witness ==
    /\ Completed
    /\ TypedPartial # <<>>
    /\ Len(eres.items) = 2
    /\ Len(Complete(etable.tbl, TypedBase)) > 2
    /\ \E x \in 1..Len(eres.items) : eres.items[x].label # TypedPartial

\* C20: once the token is cancelled the loop visits no further key: its
\* next step ends the call and adds no suggestion.
C20_CancelStopsScan ==
    [][(epc = "scan" /\ ecancel) => (epc' = "done" /\ cidx' = cidx /\ citems' = citems)]_vars


-----------------------------------------------------------------------------
(* Properties of provideHover                                              *)

\* The call of provideHover on a loaded table that returned.
Hovered == eres.kind = "hover" /\ etable.loaded

\* C14: when the position lies inside the PATH of an accessor expression of
\* the line, in any of the three forms, and the PATH is a key, the hover is
\* the high-confidence result for that PATH and its value.
C14_HoverResolvesAccessors ==
    Hovered =>
        \A a \in Accessors(eline) :
            (/\ HasPath(etable.tbl, a.path)
             /\ a.end - Len(a.path) <= epos
             /\ epos <= a.end)
                => eres = HoverResult(a.path, Get(etable.tbl, Segments(a.path)), FALSE)


\* The hovered run of the line, <<>> when the position touches none.
HoveredRun ==
    LET wr == GetWordRangeAtPosition(eline, epos)
    IN  IF wr.found THEN SubSeq(eline, wr.from, wr.to) ELSE <<>>

\* The hovered run is written after "theme." or "props.theme.".
AppendedToAccessor ==
    \/ IsPrefix(<<"theme", ".">>, HoveredRun)
    \/ IsPrefix(<<"props", ".", "theme", ".">>, HoveredRun)

\* The line holds "${" and the styled marker is in the line or the file name.
InStyledContext ==
    /\ \E i \in 1..Len(eline) : eline[i] = "${"
    /\ (estyled \/ \E i \in 1..Len(eline) : eline[i] = "styled")

\* C15: when the hovered run is not written after a recognized accessor, the
\* hover gives a result only if the run itself is a key and the line is in a
\* styled context, and that result is marked inferred; in every other case
\* it gives none.
C15_FallbackOnlyInferred ==
    (Hovered /\ ~AppendedToAccessor) =>
        IF HasPath(etable.tbl, HoveredRun) /\ InStyledContext
        THEN eres = HoverResult(HoveredRun, Get(etable.tbl, Segments(HoveredRun)), TRUE)
        ELSE eres = NullResult("hover")

\* An inferred hover on a bare path in a file whose name does not end with
\* .styled.ts.
C15_Witness ==
    /\ Hovered
    /\ ~AppendedToAccessor
    /\ eres.ret = "hover"
    /\ eres.inferred
    /\ ~estyled
    /\ Len(eres.path) = 2

-----------------------------------------------------------------------------
(* Properties of the three providers together                              *)

\* A provider call has returned.
Returned == epc = "done" /\ eres.kind # "none"

\* The line renames the destructured theme: ({ theme: t }) => t.PATH
AliasLine == \E i \in 1..Len(eline) : eline[i] = "theme" /\ At(eline, i + 1) = ":"

EmptyHints == [NoResult EXCEPT !.kind = "inlay", !.ret = "hints"]

WithoutTable ==
    CASE eres.kind = "completion" -> CompletionEntry(Null, eline, epos).res
      [] eres.kind = "hover" -> ProvideHoverAt(Null, eline, epos, estyled)
      [] OTHER -> ProvideInlayHintsAt(Null, eline)

\* The last call found nothing.
FoundNothing ==
    /\ eres.ret # "hover"
    /\ eres.items = <<>>
    /\ eres.hints = <<>>

\* C19 as stated: what a query returns when the table is loaded and nothing
\* matches differs from what it returns when there is no table.
C19_NoMatchDiffersFromMissing ==
    (Returned /\ etable.loaded /\ FoundNothing) => eres # WithoutTable

\* C19: every query returns (it does not throw) the same value for a missing
\* table and for a loaded table in which nothing matches: null from hover,
\* the empty list from inlay hints, null from completion when no accessor
\* ends at the cursor; only completion after an accessor tells the two
\* apart, null for a missing table and the empty list when no key starts
\* with the typed prefix.
C19_NoMatchSameAsMissing ==
    Returned =>
        /\ eres.ret \in {"null", "hover", "items", "hints"}
        /\ (eres.kind = "hover" /\ (~etable.loaded \/ \A i \in 1..Len(HoveredRun) :
                   ~HasPath(etable.tbl, SubSeq(HoveredRun, i, Len(HoveredRun)))))
              => eres = NullResult("hover")
        /\ (eres.kind = "inlay" /\ (~etable.loaded \/ \A a \in Accessors(eline) :
                   ~HasPath(etable.tbl, a.path)))
              => eres = EmptyHints
        /\ (eres.kind = "completion"
                /\ (~etable.loaded \/ ~ThemeAccess(SubSeq(eline, 1, epos)).found))
              => eres = NullResult("completion")
        /\ (eres.kind = "completion" /\ etable.loaded
                /\ ThemeAccess(SubSeq(eline, 1, epos)).found /\ Candidates = {})
              => eres = [NoResult EXCEPT !.kind = "completion", !.ret = "items"]

\* A hover on a path written after "theme." that is no key of the loaded
\* table: null, as without a table.
C19_Witness ==
    /\ Returned
    /\ etable.loaded
    /\ AppendedToAccessor
    /\ eres = NullResult("hover")
    /\ eres = WithoutTable

\* What the query of the last call returns as a function of its text, its
\* position, the table and whether the token is cancelled, and of nothing
\* else.
QueryOf(kind) ==
    CASE kind = "hover" -> ProvideHoverAt(etable, eline, epos, estyled)
      [] kind = "inlay" ->
            IF ecancel /\ etable.loaded /\ Exec(eline, 0).found
            THEN EmptyHints
            ELSE ProvideInlayHintsAt(etable, eline)
      [] OTHER ->
            IF CompletionEntry(etable, eline, epos).returned
            THEN CompletionEntry(etable, eline, epos).res
            ELSE [NoResult EXCEPT !.kind = "completion", !.ret = "items",
                                  !.items = Complete(etable.tbl, TypedPath)]

\* C27: whatever calls were made before it, cancelled ones included, and
\* whatever they left in the shared regex's lastIndex, in the inlay
\* provider's themeData field and in the completion's locals, a call
\* returns what its text, position, table and token determine.
C27_QueriesArePure == Returned => eres = QueryOf(eres.kind)

\* A completion that returned a list after a cancelled inlay hints call had
\* left the shared regex behind its first match.
C27_Witness ==
    /\ Returned
    /\ Completed
    /\ Len(eres.items) >= 2
    /\ lastIndex # 0
    /\ ithemeData = etable

-----------------------------------------------------------------------------
(* extension.ts: the life of the theme file watcher                        *)
(*                                                                         *)
(* A watcher is [pattern, disposed]: the path it was created for and       *)
(* whether dispose() has been called on it.                                *)

Settings == {"", "theme.ts", "src/theme.ts"}

Watcher(pattern) == [pattern |-> pattern, disposed |-> FALSE]

\* The watchers that deliver events.
Live(ws) == {i \in 1..Len(ws) : ~ws[i].disposed}

\* w.dispose() for the watcher w refers to; disposing twice is harmless.
Dispose(ws, w) ==
    IF w = 0 THEN ws ELSE [ws EXCEPT ![w].disposed = TRUE]

\* A setup that drops its reference to the existing watcher without
\* disposing it.
DisposeExistingForgets(ws, w) == ws

\* setupThemeFileWatcher: if (themeFileWatcher) { dispose(); = null }
DisposeExisting(ws, w) == Dispose(ws, w)

\* deactivate: if (themeFileWatcher) { themeFileWatcher.dispose(); }
DeactivateWatcher(ws, w) == Dispose(ws, w)

\* setupThemeFileWatcher(context).  created says whether
\* createFileSystemWatcher returns a watcher or throws (the catch reports
\* the error and themeFileWatcher stays null).
SetupThemeFileWatcher(created) ==
    LET ws == DisposeExisting(watchers, themeFileWatcher) IN
    IF workspaceFolders = 0 \/ themeFilePathSetting = "" \/ ~created
    THEN /\ watchers' = ws
         /\ themeFileWatcher' = 0
    ELSE /\ watchers' = Append(ws, Watcher(themeFilePathSetting))
         /\ themeFileWatcher' = Len(ws) + 1

\* activate(context): the initial setup, and the configuration listener.
Activate ==
    /\ wstate = "inactive"
    /\ wstate' = "active"
    /\ \E created \in BOOLEAN : SetupThemeFileWatcher(created)
    /\ UNCHANGED <<notWatcher, workspaceFolders, themeFilePathSetting, configEvents>>

\* The user sets themeFilePath; an active extension's listener will hear of it.
ChangeSetting ==
    /\ wstate \in {"inactive", "active"}
    /\ Len(watchers) < MaxWatchers
    /\ \E p \in Settings \ {themeFilePathSetting} : themeFilePathSetting' = p
    /\ configEvents' = (wstate = "active")
    /\ UNCHANGED <<notWatcher, wstate, workspaceFolders, themeFileWatcher, watchers>>

\* The user opens or closes a workspace folder; nothing listens.
ChangeWorkspaceFolders ==
    /\ wstate \in {"inactive", "active"}
    /\ \E n \in {0, 1, 2} \ {workspaceFolders} : workspaceFolders' = n
    /\ UNCHANGED <<notWatcher, wstate, themeFilePathSetting, configEvents,
                   themeFileWatcher, watchers>>

\* onDidChangeConfiguration, event.affectsConfiguration('...themeFilePath')
OnDidChangeConfiguration ==
    /\ wstate = "active"
    /\ configEvents
    /\ configEvents' = FALSE
    /\ \E created \in BOOLEAN : SetupThemeFileWatcher(created)
    /\ UNCHANGED <<notWatcher, wstate, workspaceFolders, themeFilePathSetting>>

\* deactivate(): themeFileWatcher is disposed, and keeps its value.
Deactivate ==
    /\ wstate = "active"
    /\ wstate' = "deactivating"
    /\ watchers' = DeactivateWatcher(watchers, themeFileWatcher)
    /\ UNCHANGED <<notWatcher, workspaceFolders, themeFilePathSetting, configEvents,
                   themeFileWatcher>>

\* After deactivate() has returned the host disposes context.subscriptions:
\* every watcher setupThemeFileWatcher pushed, and the configuration listener.
DisposeSubscriptions ==
    /\ wstate = "deactivating"
    /\ wstate' = "deactivated"
    /\ watchers' = [i \in 1..Len(watchers) |-> [watchers[i] EXCEPT !.disposed = TRUE]]
    /\ configEvents' = FALSE
    /\ UNCHANGED <<notWatcher, workspaceFolders, themeFilePathSetting, themeFileWatcher>>

InitWatcher ==
    /\ LoaderParked
    /\ InlayParked
    /\ FlatParked
    /\ EditParked
    /\ wstate = "inactive"
    /\ workspaceFolders \in {0, 1, 2}
    /\ themeFilePathSetting \in Settings
    /\ configEvents = FALSE
    /\ themeFileWatcher = 0
    /\ watchers = <<>>

NextWatcher ==
    \/ Activate
    \/ ChangeSetting
    \/ ChangeWorkspaceFolders
    \/ OnDidChangeConfiguration
    \/ Deactivate
    \/ DisposeSubscriptions

SpecWatcher == InitWatcher /\ [][NextWatcher]_vars

\* C30: at most one theme file watcher is live, and it is the one
\* themeFileWatcher refers to; a call of setupThemeFileWatcher (at activation
\* and on a themeFilePath configuration change) leaves the watcher it found
\* disposed, and leaves no watcher live when no workspace folder is open or
\* no path is configured; once deactivate has returned none is live.
C30_AtMostOneWatcher ==
    /\ [](/\ Cardinality(Live(watchers)) <= 1
          /\ Live(watchers) \subseteq {themeFileWatcher}
          /\ wstate \in {"deactivating", "deactivated"} => Live(watchers) = {})
    /\ [][(Activate \/ OnDidChangeConfiguration) =>
             /\ themeFileWatcher # 0 => watchers'[themeFileWatcher].disposed
             /\ (workspaceFolders = 0 \/ themeFilePathSetting = "") =>
                   Live(watchers') = {}]_vars

\* The path was changed twice: the third watcher is live, the two before it
\* are disposed.
C30_Witness ==
    /\ wstate = "active"
    /\ Len(watchers) = 3
    /\ themeFileWatcher = 3
    /\ Live(watchers) = {3}
    /\ watchers[2].pattern # watchers[3].pattern

=============================================================================
